---- MODULE Spec2Model ----
(***************************************************************************)
(* Model of the knowledge retriever of src/rag_utils.py (RAGKnowledgeBase):*)
(* the corpus loader with its fallback to the built-in corpus, the         *)
(* relevance scorer built on difflib.SequenceMatcher, and the ranker.      *)
(*                                                                         *)
(* A Python str is a sequence of one-character strings.  A Python value   *)
(* is a tagged record [t, v]; a chunk record is a dict value whose members *)
(* are <<key, value>> pairs.  Scores are binary64 floats [m, e] with the   *)
(* 53-bit significand m in limbs and the value m * 2^e.                    *)
(***************************************************************************)
EXTENDS Integers, Sequences, FiniteSets, TLC

Range(s) == {s[i] : i \in 1..Len(s)}

Min(x, y) == IF x <= y THEN x ELSE y

Reverse(seq) == [i \in 1..Len(seq) |-> seq[Len(seq) + 1 - i]]

\* F(x) and F(x, y), each argument evaluated once before F uses it
Let1(x, F(_)) == CHOOSE r \in {F(v) : v \in {x}} : TRUE
Let2(x, y, F(_, _)) == CHOOSE r \in {F(v[1], v[2]) : v \in {<<x, y>>}} : TRUE

----------------------------------------------------------------------------
(* Python float: IEEE 754 binary64, round to nearest, ties to even.  The    *)
(* scores are non-negative and far from overflow and underflow.  A float is *)
(* zero, [m |-> <<>>, e |-> 0], or m * 2^e with 2^52 <= m < 2^53; m is a    *)
(* natural number written little-endian in limbs of 15 bits.                *)

Base == 32768

RECURSIVE Pow2(_)
Pow2(k) == IF k = 0 THEN 1 ELSE 2 * Pow2(k - 1)

RECURSIVE Trim(_)
Trim(a) ==
    IF a = <<>> \/ a[Len(a)] # 0 THEN a ELSE Trim(SubSeq(a, 1, Len(a) - 1))

RECURSIVE BigOfInt(_)
BigOfInt(n) == IF n = 0 THEN <<>> ELSE <<n % Base>> \o BigOfInt(n \div Base)

Limb(a, i) == IF i <= Len(a) THEN a[i] ELSE 0

\* a + b + carry, limb by limb from limb i on
RECURSIVE BigAddFrom(_, _, _, _)
BigAddFrom(a, b, i, carry) ==
    IF i > Len(a) /\ i > Len(b)
    THEN (IF carry = 0 THEN <<>> ELSE <<carry>>)
    ELSE <<(Limb(a, i) + Limb(b, i) + carry) % Base>>
         \o BigAddFrom(a, b, i + 1, (Limb(a, i) + Limb(b, i) + carry) \div Base)

BigAdd(a, b) == BigAddFrom(a, b, 1, 0)

\* a * k + carry for 0 <= k < Base, from limb i on
RECURSIVE BigMulSmallFrom(_, _, _, _)
BigMulSmallFrom(a, k, i, carry) ==
    IF i > Len(a) THEN (IF carry = 0 THEN <<>> ELSE <<carry>>)
    ELSE <<(a[i] * k + carry) % Base>>
         \o BigMulSmallFrom(a, k, i + 1, (a[i] * k + carry) \div Base)

BigMulSmall(a, k) == Trim(BigMulSmallFrom(a, k, 1, 0))

RECURSIVE BigMul(_, _)
BigMul(a, b) ==
    IF b = <<>> \/ a = <<>> THEN <<>>
    ELSE Trim(BigAdd(BigMulSmall(a, Head(b)),
                     IF Tail(b) = <<>> THEN <<>>
                     ELSE <<0>> \o BigMul(a, Tail(b))))

\* floor(a / d) for 0 < d < Base, from the top limb down; rem is the
\* remainder of the limbs above limb i
RECURSIVE BigDivSmallFrom(_, _, _, _)
BigDivSmallFrom(a, d, i, rem) ==
    IF i = 0 THEN <<>>
    ELSE BigDivSmallFrom(a, d, i - 1, (rem * Base + a[i]) % d)
         \o <<(rem * Base + a[i]) \div d>>

BigDivSmall(a, d) == Trim(BigDivSmallFrom(a, d, Len(a), 0))

\* a mod d for 0 < d < Base
RECURSIVE BigModSmallFrom(_, _, _, _)
BigModSmallFrom(a, d, i, rem) ==
    IF i = 0 THEN rem
    ELSE BigModSmallFrom(a, d, i - 1, (rem * Base + a[i]) % d)

BigModSmall(a, d) == BigModSmallFrom(a, d, Len(a), 0)

\* a < b, for trimmed a and b
RECURSIVE BigLessFrom(_, _, _)
BigLessFrom(a, b, i) ==
    IF i = 0 THEN FALSE
    ELSE IF a[i] # b[i] THEN a[i] < b[i]
    ELSE BigLessFrom(a, b, i - 1)

BigLess(a, b) ==
    IF Len(a) # Len(b) THEN Len(a) < Len(b) ELSE BigLessFrom(a, b, Len(a))

\* number of bits of 0 <= n < Base
RECURSIVE Bits(_)
Bits(n) == IF n = 0 THEN 0 ELSE 1 + Bits(n \div 2)

\* number of bits of a trimmed a
BitLen(a) == IF a = <<>> THEN 0 ELSE 15 * (Len(a) - 1) + Bits(a[Len(a)])

\* a * 2^k
Shl(a, k) ==
    IF a = <<>> THEN <<>>
    ELSE [i \in 1..(k \div 15) |-> 0] \o BigMulSmall(a, Pow2(k % 15))

\* floor(a / 2^k)
Shr(a, k) ==
    IF k \div 15 >= Len(a) THEN <<>>
    ELSE BigDivSmall(SubSeq(a, (k \div 15) + 1, Len(a)), Pow2(k % 15))

\* a mod 2^k is not zero
LowBits(a, k) ==
    \/ \E i \in 1..Min(k \div 15, Len(a)) : a[i] # 0
    \/ (k \div 15) < Len(a) /\ a[(k \div 15) + 1] % Pow2(k % 15) # 0

\* bit k of a (bit 0 is the lowest)
Bit(a, k) ==
    IF k \div 15 >= Len(a) THEN 0
    ELSE (a[(k \div 15) + 1] \div Pow2(k % 15)) % 2

FloatZero == [m |-> <<>>, e |-> 0]

\* the float nearest to m * 2^e, ties to even
RoundFloat(m, e) ==
    IF m = <<>> THEN FloatZero
    ELSE Let1(BitLen(m),
              LAMBDA n :
                IF n <= 53 THEN [m |-> Shl(m, 53 - n), e |-> e - (53 - n)]
                ELSE Let1(Shr(m, n - 53),
                          LAMBDA q :
                            IF Bit(m, n - 54) = 1
                               /\ (LowBits(m, n - 54) \/ Bit(q, 0) = 1)
                            THEN Let1(BigAdd(q, <<1>>),
                                      LAMBDA up :
                                        IF BitLen(up) = 54
                                        THEN [m |-> Shr(up, 1), e |-> e + (n - 53) + 1]
                                        ELSE [m |-> up, e |-> e + (n - 53)])
                            ELSE [m |-> q, e |-> e + (n - 53)]))

\* float(n) / float(d) for integers 0 <= n, 0 < d < Base: the quotient to 70
\* binary places, with one more bit that tells whether anything is left
FloatDiv(n, d) ==
    Let1(Shl(BigOfInt(n), 70),
         LAMBDA num :
           RoundFloat(BigAdd(BigMulSmall(BigDivSmall(num, d), 2),
                             IF BigModSmall(num, d) # 0 THEN <<1>> ELSE <<>>),
                      0 - 71))

\* x + y
FloatAdd(x, y) ==
    IF x.m = <<>> THEN y
    ELSE IF y.m = <<>> THEN x
    ELSE Let1(Min(x.e, y.e),
              LAMBDA e : RoundFloat(BigAdd(Shl(x.m, x.e - e), Shl(y.m, y.e - e)), e))

\* x * y
FloatMul(x, y) ==
    IF x.m = <<>> \/ y.m = <<>> THEN FloatZero
    ELSE RoundFloat(BigMul(x.m, y.m), x.e + y.e)

\* x < y
FloatLess(x, y) ==
    IF y.m = <<>> THEN FALSE
    ELSE IF x.m = <<>> THEN TRUE
    ELSE IF x.e # y.e THEN x.e < y.e
    ELSE BigLess(x.m, y.m)

\* the first argument, whatever the second
FloatFirst(x, y) == x

\* min(x, y)
FloatMin(x, y) == IF FloatLess(y, x) THEN y ELSE x

----------------------------------------------------------------------------
(* str.lower(), `in` on strings, re.findall(r'\b\w+\b', s)                  *)

UpperChars == <<"A","B","C","D","E","F","G","H","I","J","K","L","M",
                "N","O","P","Q","R","S","T","U","V","W","X","Y","Z">>
LowerChars == <<"a","b","c","d","e","f","g","h","i","j","k","l","m",
                "n","o","p","q","r","s","t","u","v","w","x","y","z">>
DigitChars == {"0","1","2","3","4","5","6","7","8","9"}

\* characters outside ASCII are named by code point
LowerChar(c) ==
    IF c = "U+03A6" THEN "U+03C6"
    ELSE IF c = "U+03A9" THEN "U+03C9"
    ELSE IF \E i \in 1..Len(UpperChars) : UpperChars[i] = c
    THEN LowerChars[CHOOSE i \in 1..Len(UpperChars) : UpperChars[i] = c]
    ELSE c

lower(s) == [i \in 1..Len(s) |-> LowerChar(s[i])]

\* \w : letters, digits and the underscore
WordChars ==
    Range(UpperChars) \cup Range(LowerChars) \cup DigitChars \cup {"_"}
    \cup {"U+00B2", "U+03A6", "U+03A9", "U+03B8", "U+03C1", "U+03C6", "U+03C9",
          "U+2076", "U+2081", "U+2082", "U+2083"}

IsWordChar(c) == c \in WordChars

\* needle in hay
Contains(hay, needle) ==
    \E p \in 0..(Len(hay) - Len(needle)) :
        \A k \in 1..Len(needle) : hay[p + k] = needle[k]

\* end (exclusive, 0-based) of the run of word characters starting at i
RECURSIVE WordEnd(_, _)
WordEnd(s, i) ==
    IF i < Len(s) /\ IsWordChar(s[i + 1]) THEN WordEnd(s, i + 1) ELSE i

\* re.findall(r'\b\w+\b', s) scanning from 0-based position i
RECURSIVE FindWords(_, _)
FindWords(s, i) ==
    IF i >= Len(s) THEN <<>>
    ELSE IF IsWordChar(s[i + 1])
         THEN <<SubSeq(s, i + 1, WordEnd(s, i))>> \o FindWords(s, WordEnd(s, i))
         ELSE FindWords(s, i + 1)

----------------------------------------------------------------------------
(* difflib.SequenceMatcher(None, a, b).ratio()                              *)

CountOf(b, c) == Cardinality({j \in 1..Len(b) : b[j] = c})

\* the "popular" elements that __chain_b drops from b2j (autojunk)
Popular(b) ==
    IF Len(b) >= 200
    THEN {c \in Range(b) : CountOf(b, c) > (Len(b) \div 100) + 1}
    ELSE {}

\* length of the common run of indexed (non-popular) elements that starts at
\* a[i], b[j] (0-based) and stays inside [.., ahi) x [.., bhi)
RECURSIVE RunLen(_, _, _, _, _, _, _)
RunLen(a, b, pop, i, j, ahi, bhi) ==
    IF i < ahi /\ j < bhi /\ a[i + 1] = b[j + 1] /\ b[j + 1] \notin pop
    THEN 1 + RunLen(a, b, pop, i + 1, j + 1, ahi, bhi)
    ELSE 0

\* the block <<i, j, k>> grown to the left while the elements before it match
RECURSIVE ExtendLeft(_, _, _, _, _, _, _)
ExtendLeft(a, b, i, j, k, alo, blo) ==
    IF i > alo /\ j > blo /\ a[i] = b[j]
    THEN ExtendLeft(a, b, i - 1, j - 1, k + 1, alo, blo)
    ELSE <<i, j, k>>

\* the block <<i, j, k>> grown to the right while the elements after it match
RECURSIVE ExtendRight(_, _, _, _, _, _, _)
ExtendRight(a, b, i, j, k, ahi, bhi) ==
    IF i + k < ahi /\ j + k < bhi /\ a[i + k + 1] = b[j + k + 1]
    THEN ExtendRight(a, b, i, j, k + 1, ahi, bhi)
    ELSE <<i, j, k>>

\* of the runs <<i, j, size>>: the longest, the earliest in a and then in b
Longest(runs, alo, blo) ==
    IF runs = {} THEN <<alo, blo, 0>>
    ELSE Let1(CHOOSE k \in {r[3] : r \in runs} : \A r \in runs : r[3] <= k,
              LAMBDA bestsize :
                CHOOSE m \in runs :
                    /\ m[3] = bestsize
                    /\ \A r \in runs :
                          r[3] = bestsize =>
                             \/ m[1] < r[1]
                             \/ m[1] = r[1] /\ m[2] <= r[2])

\* <<besti, bestj, bestsize>>: the longest block of indexed elements, then
\* extended on both sides by the matching elements next to it
find_longest_match(a, b, pop, alo, ahi, blo, bhi) ==
    Let1({<<ij[1], ij[2], RunLen(a, b, pop, ij[1], ij[2], ahi, bhi)>> :
            ij \in {ij \in (alo..(ahi - 1)) \X (blo..(bhi - 1)) :
                      a[ij[1] + 1] = b[ij[2] + 1] /\ b[ij[2] + 1] \notin pop}},
         LAMBDA runs :
           Let1(Longest(runs, alo, blo),
                LAMBDA m :
                  Let1(ExtendLeft(a, b, m[1], m[2], m[3], alo, blo),
                       LAMBDA l : ExtendRight(a, b, l[1], l[2], l[3], ahi, bhi))))

\* sum of the sizes of get_matching_blocks()
RECURSIVE MatchCount(_, _, _, _, _, _, _)
MatchCount(a, b, pop, alo, ahi, blo, bhi) ==
    Let1(find_longest_match(a, b, pop, alo, ahi, blo, bhi),
         LAMBDA m :
           IF m[3] = 0 THEN 0
           ELSE m[3]
                + (IF alo < m[1] /\ blo < m[2]
                   THEN MatchCount(a, b, pop, alo, m[1], blo, m[2]) ELSE 0)
                + (IF m[1] + m[3] < ahi /\ m[2] + m[3] < bhi
                   THEN MatchCount(a, b, pop, m[1] + m[3], ahi, m[2] + m[3], bhi)
                   ELSE 0))

\* 1.0 as soon as one of the two is empty
ratio_empty_one(a, b) ==
    IF Len(a) = 0 \/ Len(b) = 0 THEN FloatDiv(1, 1)
    ELSE Let1(Popular(b),
              LAMBDA pop : FloatDiv(2 * MatchCount(a, b, pop, 0, Len(a), 0, Len(b)),
                                    Len(a) + Len(b)))

\* ratio(): 2.0 * matches / length; 1.0 when both are empty
ratio(a, b) ==
    IF Len(a) + Len(b) = 0 THEN FloatDiv(1, 1)
    ELSE Let1(Popular(b),
              LAMBDA pop : FloatDiv(2 * MatchCount(a, b, pop, 0, Len(a), 0, Len(b)),
                                    Len(a) + Len(b)))

similarity_score(text1, text2) == Let2(lower(text1), lower(text2), ratio)

----------------------------------------------------------------------------
(* Python values that json.load can produce, tagged by type.  A dict is the *)
(* sequence of its <<key, value>> items in insertion order.                 *)

PyStr(s)   == [t |-> "str",  v |-> s]
PyInt(n)   == [t |-> "int",  v |-> n]
PyNone     == [t |-> "none", v |-> 0]
PyList(xs) == [t |-> "list", v |-> xs]
PyDict(kv) == [t |-> "dict", v |-> kv]

HasKey(d, key) == \E i \in 1..Len(d.v) : d.v[i][1] = key

\* a lookup that never finds the key
getDefault(d, key, default) == default

\* d.get(key, default)
get(d, key, default) ==
    IF HasKey(d, key)
    THEN d.v[CHOOSE i \in 1..Len(d.v) : d.v[i][1] = key][2]
    ELSE default

\* d[key] = val
SetItem(d, key, val) ==
    IF HasKey(d, key)
    THEN PyDict([i \in 1..Len(d.v) |-> IF d.v[i][1] = key THEN <<key, val>> ELSE d.v[i]])
    ELSE PyDict(Append(d.v, <<key, val>>))

K_chunk    == <<"c","h","u","n","k">>
K_subtopic == <<"s","u","b","t","o","p","i","c">>
K_chapter  == <<"c","h","a","p","t","e","r">>
K_chunks   == <<"c","h","u","n","k","s">>

\* chunk.get(key): None when the key is missing
chunk_get_none(chunk, key) == get(chunk, key, PyNone)

\* chunk.get(key, '')
chunk_get(chunk, key) == get(chunk, key, PyStr(<<>>))

\* chunk.setdefault(key, ''): a lookup that stores the default in the record
dict_after_setdefault(d, key, default) ==
    IF d.t = "dict" /\ ~HasKey(d, key) THEN SetItem(d, key, default) ELSE d

\* the record after d.get(key, default): dict.get leaves the dict as it is
dict_after_get(d, key, default) == d

\* one record after chunk.get(key, '') for each of the keys
RECURSIVE chunk_after_gets(_, _)
chunk_after_gets(chunk, keys) ==
    IF keys = <<>> THEN chunk
    ELSE chunk_after_gets(dict_after_get(chunk, Head(keys), PyStr(<<>>)),
                          Tail(keys))

\* self.knowledge_chunks after a loop that reads the keys of every record;
\* the loops bind no name of the retriever and call no method of the list
chunks_after_reads(knowledge_chunks_, keys) ==
    IF knowledge_chunks_.t = "list"
    THEN PyList([i \in 1..Len(knowledge_chunks_.v) |->
                    chunk_after_gets(knowledge_chunks_.v[i], keys)])
    ELSE knowledge_chunks_

----------------------------------------------------------------------------
(* the float literals of search_relevant_chunks                             *)

\* the relevance floor, 0.1
Floor == FloatDiv(1, 10)

\* 1.5, the weight of subtopic_score
SubtopicWeight == FloatDiv(3, 2)

\* 1.2, the weight of chapter_score
ChapterWeight == FloatDiv(12, 10)

\* 0.3, the bonus of one keyword
KeywordBonus == FloatDiv(3, 10)

\* 1.0, the cap of keyword_score
KeywordCap == FloatDiv(1, 1)

----------------------------------------------------------------------------
(* search_relevant_chunks: scoring of one chunk                             *)

\* the count over the distinct keywords: a repeated keyword counts once
KeywordHitsDistinct(keywords, chunk_text, subtopic, chapter) ==
    Cardinality({keyword \in Range(keywords) :
                    \/ Contains(chunk_text, keyword)
                    \/ Contains(subtopic, keyword)
                    \/ Contains(chapter, keyword)})

\* number of keywords found in one of the three lowercased fields
RECURSIVE KeywordHits(_, _, _, _)
KeywordHits(keywords, chunk_text, subtopic, chapter) ==
    IF keywords = <<>> THEN 0
    ELSE (IF \/ Contains(chunk_text, Head(keywords))
             \/ Contains(subtopic, Head(keywords))
             \/ Contains(chapter, Head(keywords))
          THEN 1 ELSE 0)
         + KeywordHits(Tail(keywords), chunk_text, subtopic, chapter)

\* keyword_score after hits additions of 0.3 to the int 0
RECURSIVE keyword_score(_)
keyword_score(hits) ==
    IF hits = 0 THEN FloatZero
    ELSE FloatAdd(keyword_score(hits - 1), KeywordBonus)

\* the sum without the weights 1.5 and 1.2
SumScoresUnweighted(c, s, h, kw) ==
    FloatAdd(FloatAdd(FloatAdd(c, s), h), FloatMin(kw, KeywordCap))

\* content_score + subtopic_score + chapter_score + min(keyword_score, 1.0)
\* from the three ratios c, s, h and keyword_score kw, added left to right
SumScores(c, s, h, kw) ==
    FloatAdd(FloatAdd(FloatAdd(c, FloatMul(s, SubtopicWeight)),
                      FloatMul(h, ChapterWeight)),
             FloatMin(kw, KeywordCap))

\* total_score from the lowercased query and fields
ScoreOf(query_lower, chunk_text, subtopic, chapter) ==
    Let1(<<similarity_score(query_lower, chunk_text),
           similarity_score(query_lower, subtopic),
           similarity_score(query_lower, chapter),
           keyword_score(KeywordHits(FindWords(query_lower, 0),
                                      chunk_text, subtopic, chapter))>>,
         LAMBDA p : SumScores(p[1], p[2], p[3], p[4]))

\* the score with the query as typed: query_lower = query
total_score_query_as_typed(query, chunk) ==
    Let1(<<query,
           lower(chunk_get(chunk, K_chunk).v),
           lower(chunk_get(chunk, K_subtopic).v),
           lower(chunk_get(chunk, K_chapter).v)>>,
         LAMBDA f : ScoreOf(f[1], f[2], f[3], f[4]))

\* total_score of one chunk in the loop of search_relevant_chunks
total_score(query, chunk) ==
    Let1(<<lower(query),
           lower(chunk_get(chunk, K_chunk).v),
           lower(chunk_get(chunk, K_subtopic).v),
           lower(chunk_get(chunk, K_chapter).v)>>,
         LAMBDA f : ScoreOf(f[1], f[2], f[3], f[4]))

\* total_score of every chunk, in corpus order: the values the loop of
\* search_relevant_chunks computes
Totals(chunks, query) == [i \in 1..Len(chunks) |-> total_score(query, chunks[i])]

\* the floor test written as total_score >= 0.1
ScoredAtFloor(totals) ==
    SelectSeq([i \in 1..Len(totals) |-> [chunk |-> i, score |-> totals[i]]],
              LAMBDA item : ~FloatLess(item.score, Floor))

\* scored_chunks after the loop: the chunks whose total_score is above the
\* floor, in corpus order; an item holds a reference to its chunk (the
\* position in knowledge_chunks) and the score
Scored(totals) ==
    SelectSeq([i \in 1..Len(totals) |-> [chunk |-> i, score |-> totals[i]]],
              LAMBDA item : FloatLess(Floor, item.score))

\* an item goes before the items of equal score: ties come out reversed
RECURSIVE InsertDescUnstable(_, _)
InsertDescUnstable(sorted, item) ==
    IF sorted = <<>> THEN <<item>>
    ELSE IF ~FloatLess(item.score, Head(sorted).score) THEN <<item>> \o sorted
    ELSE <<Head(sorted)>> \o InsertDescUnstable(Tail(sorted), item)

\* list.sort(key=score, reverse=True): stable, descending
RECURSIVE InsertDesc(_, _)
InsertDesc(sorted, item) ==
    IF sorted = <<>> THEN <<item>>
    ELSE IF FloatLess(Head(sorted).score, item.score) THEN <<item>> \o sorted
    ELSE <<Head(sorted)>> \o InsertDesc(Tail(sorted), item)

\* the sort without reverse=True: ascending
RECURSIVE SortFirstAscending(_, _)
SortFirstAscending(items, n) ==
    IF n = 0 THEN <<>>
    ELSE Let1(SortFirstAscending(items, n - 1),
              LAMBDA sorted :
                Let1(SelectSeq(sorted, LAMBDA x : ~FloatLess(items[n].score, x.score)),
                     LAMBDA low :
                       low \o <<items[n]>> \o SubSeq(sorted, Len(low) + 1, Len(sorted))))

\* the first n items, sorted
RECURSIVE SortFirst(_, _)
SortFirst(items, n) ==
    IF n = 0 THEN <<>>
    ELSE Let1(SortFirst(items, n - 1), LAMBDA sorted : InsertDesc(sorted, items[n]))

\* every item sorted in twice
sortDoubled(items) == SortFirst(items \o items, 2 * Len(items))

sort(items) == SortFirst(items, Len(items))

\* s[:k + 1]: one element too many
SliceOneMore(s, k) ==
    IF k >= 0 THEN SubSeq(s, 1, Min(k + 1, Len(s)))
    ELSE SubSeq(s, 1, IF Len(s) + k + 1 > 0 THEN Len(s) + k + 1 ELSE 0)

\* s[:k]
Slice(s, k) ==
    IF k >= 0 THEN SubSeq(s, 1, Min(k, Len(s)))
    ELSE SubSeq(s, 1, IF Len(s) + k > 0 THEN Len(s) + k ELSE 0)

\* chunk.get(key, '').lower() raises AttributeError when chunk is no dict
\* or the value is no str
LowerRaises(chunk, key) ==
    \/ chunk.t # "dict"
    \/ chunk_get(chunk, key).t # "str"

\* the loop of search_relevant_chunks raises on some chunk
SearchRaises(chunks) ==
    \E i \in 1..Len(chunks) :
        \E key \in {K_chunk, K_subtopic, K_chapter} : LowerRaises(chunks[i], key)

\* the total_score of every chunk, the sorted scored_chunks and the returned
\* list (of chunk references); raised when the call ends in an exception
search_relevant_chunks(knowledge_chunks_, query, top_k) ==
    IF knowledge_chunks_.v = <<>>
    THEN [raised |-> FALSE, totals |-> <<>>, scored_chunks |-> <<>>, result |-> <<>>]
    ELSE IF SearchRaises(knowledge_chunks_.v)
    THEN [raised |-> TRUE, totals |-> <<>>, scored_chunks |-> <<>>, result |-> <<>>]
    ELSE Let1(Totals(knowledge_chunks_.v, query) \o <<>>,
              LAMBDA totals :
                Let1(sort(Scored(totals)),
                     LAMBDA scored_chunks :
                       Let1(Slice(scored_chunks, top_k),
                            LAMBDA top :
                              [raised |-> FALSE, totals |-> totals,
                               scored_chunks |-> scored_chunks,
                               result |-> [i \in 1..Len(top) |-> top[i].chunk]])))

----------------------------------------------------------------------------
(* get_context_for_query                                                    *)

\* "Physics concepts from Class 10 curriculum."
FallbackContext ==
    <<"P","h","y","s","i","c","s"," ","c","o","n","c","e","p","t","s"," ",
      "f","r","o","m"," ","C","l","a","s","s"," ","1","0"," ","c","u","r",
      "r","i","c","u","l","u","m",".">>

\* "\n".join([]): what the end of the function would return
joined_nothing == <<>>

\* the return value when relevant_chunks is empty
empty_result_context == FallbackContext

\* the block without its labels: f"{chunk_text}\n"
formatted_chunk_unlabelled(chunk) == chunk_get(chunk, K_chunk).v \o <<"\n">>

\* f"<U+1F4DA> **{chapter}** - {subtopic}:\n{chunk_text}\n"
formatted_chunk(chunk) ==
    <<"U+1F4DA", " ", "*", "*">> \o chunk_get(chunk, K_chapter).v
    \o <<"*", "*", " ", "-", " ">> \o chunk_get(chunk, K_subtopic).v
    \o <<":", "\n">> \o chunk_get(chunk, K_chunk).v \o <<"\n">>

\* the budget test without the length of the block
FitsBefore(current_length, block, max_context_length) ==
    current_length <= max_context_length

\* current_length + len(formatted_chunk) <= max_context_length
Fits(current_length, block, max_context_length) ==
    current_length + Len(block) <= max_context_length

\* the loop with continue in place of break: later blocks are still tried
RECURSIVE context_parts_continue(_, _, _, _)
context_parts_continue(blocks, i, current_length, max_context_length) ==
    IF i > Len(blocks) THEN <<>>
    ELSE IF Fits(current_length, blocks[i], max_context_length)
    THEN <<i>> \o context_parts_continue(blocks, i + 1,
                      current_length + Len(blocks[i]), max_context_length)
    ELSE context_parts_continue(blocks, i + 1, current_length,
                                max_context_length)

\* the loop over relevant_chunks from block i on: the positions (in
\* relevant_chunks) of the blocks appended to context_parts
RECURSIVE context_parts(_, _, _, _)
context_parts(blocks, i, current_length, max_context_length) ==
    IF i > Len(blocks) THEN <<>>
    ELSE IF Fits(current_length, blocks[i], max_context_length)
    THEN <<i>> \o context_parts(blocks, i + 1,
                      current_length + Len(blocks[i]), max_context_length)
    ELSE <<>>

\* "\n".join(parts)
RECURSIVE Join(_)
Join(parts) ==
    IF parts = <<>> THEN <<>>
    ELSE IF Len(parts) = 1 THEN parts[1]
    ELSE parts[1] \o <<"\n">> \o Join(Tail(parts))

\* get_context_for_query: the search it makes, the formatted block of each
\* relevant chunk, the positions of the blocks it includes, and the
\* returned string
get_context_for_query(knowledge_chunks_, query, max_context_length) ==
    Let1(search_relevant_chunks(knowledge_chunks_, query, 3),
         LAMBDA s :
           IF s.raised
           THEN [raised |-> TRUE, search |-> s, blocks |-> <<>>,
                 included |-> <<>>, result |-> <<>>]
           ELSE IF s.result = <<>>
           THEN [raised |-> FALSE, search |-> s, blocks |-> <<>>,
                 included |-> <<>>, result |-> empty_result_context]
           ELSE Let1([i \in 1..Len(s.result) |->
                         formatted_chunk(knowledge_chunks_.v[s.result[i]])],
                     LAMBDA blocks :
                       Let1(context_parts(blocks, 1, 0, max_context_length),
                            LAMBDA included :
                              [raised |-> FALSE, search |-> s,
                               blocks |-> blocks, included |-> included,
                               result |-> Join([k \in 1..Len(included) |->
                                                  blocks[included[k]]])])))

----------------------------------------------------------------------------
(* get_chapter_topics                                                       *)

\* bool(val)
Truthy(val) ==
    IF val.t = "none" THEN FALSE
    ELSE IF val.t = "int" THEN val.v # 0
    ELSE val.v # <<>>

\* the first occurrence of each element, in order
RECURSIVE Distinct(_)
Distinct(seq) ==
    IF seq = <<>> THEN <<>>
    ELSE Let1(Distinct(SubSeq(seq, 1, Len(seq) - 1)),
              LAMBDA d : IF seq[Len(seq)] \in Range(d) THEN d
                         ELSE Append(d, seq[Len(seq)]))

Rotate(seq, k) == SubSeq(seq, k + 1, Len(seq)) \o SubSeq(seq, 1, k)

\* list(values): the duplicates kept
ListOfAll(values) == {values}

\* list(set(values)): the distinct values in the order of the hash table,
\* which the hash seed of the process decides; the orders drawn here are
\* the rotations of the first-seen order and their reverses (every order
\* when there are at most three values)
ListOfSet(values) ==
    Let1(Distinct(values),
         LAMBDA d :
           IF d = <<>> THEN {<<>>}
           ELSE {Rotate(d, k) : k \in 0..(Len(d) - 1)}
                \cup {Reverse(Rotate(d, k)) : k \in 0..(Len(d) - 1)})

\* [chunk.get('subtopic', '') for chunk in ... if chunk.get('subtopic')]
TruthySubtopics(chunks) ==
    Let1(SelectSeq([i \in 1..Len(chunks) |->
                       chunk_get(chunks[i], K_subtopic)], Truthy),
         LAMBDA vals : [i \in 1..Len(vals) |-> vals[i].v])

\* the loop without the test topic not in topics
RECURSIVE TopicsLoopRepeating(_, _, _, _)
TopicsLoopRepeating(chunks, i, chapter_lower, topics) ==
    IF i > Len(chunks) THEN topics
    ELSE IF Contains(lower(chunk_get(chunks[i], K_chapter).v), chapter_lower)
            /\ Truthy(chunk_get(chunks[i], K_subtopic))
    THEN TopicsLoopRepeating(chunks, i + 1, chapter_lower,
                             Append(topics, chunk_get(chunks[i], K_subtopic).v))
    ELSE TopicsLoopRepeating(chunks, i + 1, chapter_lower, topics)

\* the loop of get_chapter_topics from chunk i on
RECURSIVE TopicsLoop(_, _, _, _)
TopicsLoop(chunks, i, chapter_lower, topics) ==
    IF i > Len(chunks) THEN topics
    ELSE IF Contains(lower(chunk_get(chunks[i], K_chapter).v),
                     chapter_lower)
    THEN Let1(chunk_get(chunks[i], K_subtopic),
              LAMBDA topic :
                IF Truthy(topic) /\ topic.v \notin Range(topics)
                THEN TopicsLoop(chunks, i + 1, chapter_lower,
                                Append(topics, topic.v))
                ELSE TopicsLoop(chunks, i + 1, chapter_lower, topics))
    ELSE TopicsLoop(chunks, i + 1, chapter_lower, topics)

\* get_chapter_topics(chapter): raised, or the lists it can return (one
\* list, except for the order of list(set(...)))
get_chapter_topics(knowledge_chunks_, chapter) ==
    IF ~Truthy(chapter)
    THEN IF \E i \in 1..Len(knowledge_chunks_.v) :
               knowledge_chunks_.v[i].t # "dict"
         THEN [raised |-> TRUE, results |-> {<<>>}]
         ELSE [raised |-> FALSE,
               results |-> ListOfSet(TruthySubtopics(knowledge_chunks_.v))]
    ELSE IF \E i \in 1..Len(knowledge_chunks_.v) :
               LowerRaises(knowledge_chunks_.v[i], K_chapter)
    THEN [raised |-> TRUE, results |-> {<<>>}]
    ELSE [raised |-> FALSE,
          results |-> {TopicsLoop(knowledge_chunks_.v, 1, lower(chapter.v),
                                  <<>>)}]

----------------------------------------------------------------------------
(* json.dump(obj, f, indent=2, ensure_ascii=False) and json.load(f), on     *)
(* the text of the store (a sequence of characters)                         *)

Spaces(n) == [i \in 1..n |-> " "]

RECURSIVE Digits(_)
Digits(n) ==
    LET d == <<"0","1","2","3","4","5","6","7","8","9">>[(n % 10) + 1]
    IN IF n < 10 THEN <<d>> ELSE Digits(n \div 10) \o <<d>>

\* escapes written inside a string: quote, backslash and control characters
EscapeChar(c) ==
    CASE c = "\"" -> <<"\\", "\"">>
      [] c = "\\" -> <<"\\", "\\">>
      [] c = "\n" -> <<"\\", "n">>
      [] c = "\t" -> <<"\\", "t">>
      [] OTHER -> <<c>>

\* every character replaced by its escape
RECURSIVE Escape(_)
Escape(s) ==
    IF Len(s) = 0 THEN <<>>
    ELSE IF Len(s) = 1 THEN EscapeChar(s[1])
    ELSE Escape(SubSeq(s, 1, Len(s) \div 2))
         \o Escape(SubSeq(s, (Len(s) \div 2) + 1, Len(s)))

RECURSIVE Encode(_, _)
RECURSIVE EncodeItems(_, _, _)
RECURSIVE EncodeMembers(_, _, _)

Encode(val, level) ==
    CASE val.t = "str"  -> <<"\"">> \o Escape(val.v) \o <<"\"">>
      [] val.t = "int"  -> Digits(val.v)
      [] val.t = "none" -> <<"n","u","l","l">>
      [] val.t = "list" ->
            IF val.v = <<>> THEN <<"[", "]">>
            ELSE <<"[">> \o EncodeItems(val.v, 1, level + 1)
                 \o <<"\n">> \o Spaces(2 * level) \o <<"]">>
      [] val.t = "dict" ->
            IF val.v = <<>> THEN <<"{", "}">>
            ELSE <<"{">> \o EncodeMembers(val.v, 1, level + 1)
                 \o <<"\n">> \o Spaces(2 * level) \o <<"}">>

EncodeItems(xs, i, level) ==
    IF i > Len(xs) THEN <<>>
    ELSE (IF i > 1 THEN <<",">> ELSE <<>>) \o <<"\n">> \o Spaces(2 * level)
         \o Encode(xs[i], level) \o EncodeItems(xs, i + 1, level)

EncodeMembers(kv, i, level) ==
    IF i > Len(kv) THEN <<>>
    ELSE (IF i > 1 THEN <<",">> ELSE <<>>) \o <<"\n">> \o Spaces(2 * level)
         \o <<"\"">> \o Escape(kv[i][1]) \o <<"\"", ":", " ">>
         \o Encode(kv[i][2], level) \o EncodeMembers(kv, i + 1, level)

json_dump(obj) == Encode(obj, 0)

\* a parse result: ok, the value, and the 0-based position after it
ParseError == [ok |-> FALSE, v |-> PyNone, next |-> 0]
Parsed(val, pos) == [ok |-> TRUE, v |-> val, next |-> pos]

RECURSIVE SkipWs(_, _)
SkipWs(text, pos) ==
    IF pos < Len(text) /\ text[pos + 1] \in {" ", "\n", "\t", "\r"}
    THEN SkipWs(text, pos + 1) ELSE pos

\* number of consecutive backslashes that end just before 0-based position p,
\* not looking before position lo
RECURSIVE BackslashesBefore(_, _, _)
BackslashesBefore(text, p, lo) ==
    IF p > lo /\ text[p] = "\\" THEN 1 + BackslashesBefore(text, p - 1, lo) ELSE 0

\* the character at p opens an escape: a backslash that is not itself escaped
IsEscapeStart(text, p, lo) ==
    text[p + 1] = "\\" /\ BackslashesBefore(text, p, lo) % 2 = 0

\* the character at p is the second one of an escape
IsEscaped(text, p, lo) == p > lo /\ IsEscapeStart(text, p - 1, lo)

\* the string whose opening quote precedes pos: up to the first quote that is
\* not escaped; an unknown escape or a raw control character is an error
ScanString(text, pos) ==
    LET IsEnd(q) == text[q + 1] = "\"" /\ ~IsEscaped(text, q, pos)
        ends == {q \in pos..(Len(text) - 1) : IsEnd(q)}
        end == CHOOSE q \in pos..(Len(text) - 1) :
                  q \in ends /\ \A q2 \in pos..(q - 1) : q2 \notin ends
        Bad(p) ==
            IF IsEscaped(text, p, pos)
            THEN text[p + 1] \notin {"\"", "\\", "/", "n", "t"}
            ELSE text[p + 1] \in {"\n", "\t", "\r"}
        Decoded(p) ==
            IF IsEscaped(text, p, pos) THEN "<escaped>"
            ELSE IF ~IsEscapeStart(text, p, pos) THEN text[p + 1]
            ELSE IF text[p + 2] = "n" THEN "\n"
            ELSE IF text[p + 2] = "t" THEN "\t"
            ELSE text[p + 2]
        units == [i \in 1..(end - pos) |-> Decoded(pos + i - 1)]
    IN IF ends = {} THEN ParseError
       ELSE IF \E p \in pos..(end - 1) : Bad(p) THEN ParseError
       ELSE Parsed(PyStr(SelectSeq(units, LAMBDA c : c # "<escaped>")), end + 1)

RECURSIVE ScanInt(_, _, _)
ScanInt(text, pos, acc) ==
    IF pos < Len(text) /\ text[pos + 1] \in DigitChars
    THEN ScanInt(text, pos + 1,
                 10 * acc + (CHOOSE d \in 0..9 : Digits(d) = <<text[pos + 1]>>))
    ELSE Parsed(PyInt(acc), pos)

RECURSIVE ParseValue(_, _)
RECURSIVE ParseItems(_, _, _)
RECURSIVE ParseMembers(_, _, _)

\* the value that starts at pos
ParseValue(text, pos) ==
    IF pos >= Len(text) THEN ParseError
    ELSE LET c == text[pos + 1]
         IN CASE c = "\"" -> ScanString(text, pos + 1)
              [] c = "[" ->
                    LET p == SkipWs(text, pos + 1)
                    IN IF p < Len(text) /\ text[p + 1] = "]"
                       THEN Parsed(PyList(<<>>), p + 1)
                       ELSE ParseItems(text, p, <<>>)
              [] c = "{" ->
                    LET p == SkipWs(text, pos + 1)
                    IN IF p < Len(text) /\ text[p + 1] = "}"
                       THEN Parsed(PyDict(<<>>), p + 1)
                       ELSE ParseMembers(text, p, PyDict(<<>>))
              [] c \in DigitChars -> ScanInt(text, pos, 0)
              [] c = "n" ->
                    IF pos + 4 <= Len(text)
                       /\ SubSeq(text, pos + 1, pos + 4) = <<"n","u","l","l">>
                    THEN Parsed(PyNone, pos + 4) ELSE ParseError
              [] OTHER -> ParseError

ParseItems(text, pos, acc) ==
    LET r == ParseValue(text, pos)
        p == SkipWs(text, r.next)
    IN IF ~r.ok \/ p >= Len(text) THEN ParseError
       ELSE IF text[p + 1] = ","
            THEN ParseItems(text, SkipWs(text, p + 1), Append(acc, r.v))
       ELSE IF text[p + 1] = "]"
            THEN Parsed(PyList(Append(acc, r.v)), p + 1)
       ELSE ParseError

ParseMembers(text, pos, acc) ==
    IF pos >= Len(text) \/ text[pos + 1] # "\"" THEN ParseError
    ELSE LET k == ScanString(text, pos + 1)
             p == SkipWs(text, k.next)
         IN IF ~k.ok \/ p >= Len(text) \/ text[p + 1] # ":" THEN ParseError
            ELSE LET r == ParseValue(text, SkipWs(text, p + 1))
                     q == SkipWs(text, r.next)
                 IN IF ~r.ok \/ q >= Len(text) THEN ParseError
                    ELSE IF text[q + 1] = ","
                         THEN ParseMembers(text, SkipWs(text, q + 1),
                                           SetItem(acc, k.v.v, r.v))
                    ELSE IF text[q + 1] = "}"
                         THEN Parsed(SetItem(acc, k.v.v, r.v), q + 1)
                    ELSE ParseError

\* json.load: one value, nothing but whitespace around it
json_load(text) ==
    LET r == ParseValue(text, SkipWs(text, 0))
    IN IF r.ok /\ SkipWs(text, r.next) = Len(text) THEN r ELSE ParseError

----------------------------------------------------------------------------
(* _create_sample_knowledge_base: the built-in corpus                       *)

Record(chunk, subtopic, chapter) ==
    PyDict(<< <<K_chunk, PyStr(chunk)>>, <<K_subtopic, PyStr(subtopic)>>,
              <<K_chapter, PyStr(chapter)>> >>)

sample_chunks == PyList(<<
    Record(
      \* Nature of Light (src/rag_utils.py)
      <<"L","i","g","h","t"," ","i","s"," ","a"," ","f","o","r","m"," ","o",
        "f"," ","e","n","e","r","g","y"," ","w","h","i","c","h"," ","e","n",
        "a","b","l","e","s"," ","u","s"," ","t","o"," ","s","e","e"," ","o",
        "b","j","e","c","t","s","."," ","W","e"," ","s","e","e"," ","o","b",
        "j","e","c","t","s"," ","w","h","e","n"," ","l","i","g","h","t"," ",
        "e","m","i","t","t","e","d"," ","o","r"," ","r","e","f","l","e","c",
        "t","e","d"," ","b","y"," ","t","h","e","m"," ","r","e","a","c","h",
        "e","s"," ","o","u","r"," ","e","y","e","s","."," ","L","i","g","h",
        "t"," ","t","r","a","v","e","l","s"," ","i","n"," ","s","t","r","a",
        "i","g","h","t"," ","l","i","n","e","s","."," ","T","h","i","s"," ",
        "c","a","n"," ","b","e"," ","o","b","s","e","r","v","e","d"," ","f",
        "r","o","m"," ","t","h","e"," ","f","a","c","t"," ","t","h","a","t",
        " ","a"," ","s","m","a","l","l"," ","s","o","u","r","c","e"," ","o",
        "f"," ","l","i","g","h","t"," ","c","a","s","t","s"," ","s","h","a",
        "r","p"," ","s","h","a","d","o","w","s"," ","o","f"," ","o","p","a",
        "q","u","e"," ","o","b","j","e","c","t","s","."," ","T","h","e"," ",
        "s","t","r","a","i","g","h","t","-","l","i","n","e"," ","p","a","t",
        "h"," ","o","f"," ","l","i","g","h","t"," ","i","s"," ","c","a","l",
        "l","e","d"," ","a"," ","r","a","y"," ","o","f"," ","l","i","g","h",
        "t",".">>,
      <<"N","a","t","u","r","e"," ","o","f"," ","L","i","g","h","t">>,
      <<"L","i","g","h","t"," ","-"," ","R","e","f","l","e","c","t","i","o",
        "n"," ","a","n","d"," ","R","e","f","r","a","c","t","i","o","n">>),
    Record(
      \* Reflection of Light (src/rag_utils.py)
      <<"W","h","e","n"," ","l","i","g","h","t"," ","f","a","l","l","s"," ",
        "o","n"," ","a"," ","s","u","r","f","a","c","e",","," ","i","t"," ",
        "c","a","n"," ","b","e"," ","r","e","f","l","e","c","t","e","d",",",
        " ","a","b","s","o","r","b","e","d",","," ","o","r"," ","t","r","a",
        "n","s","m","i","t","t","e","d","."," ","T","h","e"," ","p","h","e",
        "n","o","m","e","n","o","n"," ","o","f"," ","b","o","u","n","c","i",
        "n","g"," ","b","a","c","k"," ","o","f"," ","l","i","g","h","t"," ",
        "r","a","y","s"," ","f","r","o","m"," ","a"," ","s","u","r","f","a",
        "c","e"," ","i","s"," ","c","a","l","l","e","d"," ","r","e","f","l",
        "e","c","t","i","o","n","."," ","L","a","w","s"," ","o","f"," ","r",
        "e","f","l","e","c","t","i","o","n",":"," ","(","1",")"," ","T","h",
        "e"," ","i","n","c","i","d","e","n","t"," ","r","a","y",","," ","r",
        "e","f","l","e","c","t","e","d"," ","r","a","y"," ","a","n","d"," ",
        "n","o","r","m","a","l"," ","a","l","l"," ","l","i","e"," ","i","n",
        " ","t","h","e"," ","s","a","m","e"," ","p","l","a","n","e","."," ",
        "(","2",")"," ","T","h","e"," ","a","n","g","l","e"," ","o","f"," ",
        "i","n","c","i","d","e","n","c","e"," ","i","s"," ","e","q","u","a",
        "l"," ","t","o"," ","t","h","e"," ","a","n","g","l","e"," ","o","f",
        " ","r","e","f","l","e","c","t","i","o","n"," ","(","U+2220","i",
        " ","="," ","U+2220","r",")",".">>,
      <<"R","e","f","l","e","c","t","i","o","n"," ","o","f"," ","L","i","g",
        "h","t">>,
      <<"L","i","g","h","t"," ","-"," ","R","e","f","l","e","c","t","i","o",
        "n"," ","a","n","d"," ","R","e","f","r","a","c","t","i","o","n">>),
    Record(
      \* Spherical Mirrors (src/rag_utils.py)
      <<"A"," ","s","p","h","e","r","i","c","a","l"," ","m","i","r","r","o",
        "r"," ","i","s"," ","a"," ","m","i","r","r","o","r"," ","w","h","o",
        "s","e"," ","r","e","f","l","e","c","t","i","n","g"," ","s","u","r",
        "f","a","c","e"," ","i","s"," ","p","a","r","t"," ","o","f"," ","a",
        " ","s","p","h","e","r","e","."," ","T","h","e","r","e"," ","a","r",
        "e"," ","t","w","o"," ","t","y","p","e","s",":"," ","C","o","n","c",
        "a","v","e"," ","m","i","r","r","o","r"," ","(","c","o","n","v","e",
        "r","g","i","n","g"," ","m","i","r","r","o","r",")"," ","-"," ","c",
        "u","r","v","e","s"," ","i","n","w","a","r","d",","," ","c","a","n",
        " ","f","o","r","m"," ","r","e","a","l"," ","a","n","d"," ","v","i",
        "r","t","u","a","l"," ","i","m","a","g","e","s","."," ","C","o","n",
        "v","e","x"," ","m","i","r","r","o","r"," ","(","d","i","v","e","r",
        "g","i","n","g"," ","m","i","r","r","o","r",")"," ","-"," ","c","u",
        "r","v","e","s"," ","o","u","t","w","a","r","d",","," ","a","l","w",
        "a","y","s"," ","f","o","r","m","s"," ","v","i","r","t","u","a","l",
        ","," ","d","i","m","i","n","i","s","h","e","d"," ","i","m","a","g",
        "e","s","."," ","T","h","e"," ","f","o","c","a","l"," ","l","e","n",
        "g","t","h"," ","f"," ","="," ","R","/","2",","," ","w","h","e","r",
        "e"," ","R"," ","i","s"," ","r","a","d","i","u","s"," ","o","f"," ",
        "c","u","r","v","a","t","u","r","e",".">>,
      <<"S","p","h","e","r","i","c","a","l"," ","M","i","r","r","o","r","s">>,
      <<"L","i","g","h","t"," ","-"," ","R","e","f","l","e","c","t","i","o",
        "n"," ","a","n","d"," ","R","e","f","r","a","c","t","i","o","n">>),
    Record(
      \* Mirror Formula (src/rag_utils.py)
      <<"M","i","r","r","o","r"," ","f","o","r","m","u","l","a",":"," ","1",
        "/","v"," ","+"," ","1","/","u"," ","="," ","1","/","f",","," ","w",
        "h","e","r","e"," ","v"," ","="," ","i","m","a","g","e"," ","d","i",
        "s","t","a","n","c","e",","," ","u"," ","="," ","o","b","j","e","c",
        "t"," ","d","i","s","t","a","n","c","e",","," ","f"," ","="," ","f",
        "o","c","a","l"," ","l","e","n","g","t","h","."," ","M","a","g","n",
        "i","f","i","c","a","t","i","o","n"," ","m"," ","="," ","-","v","/",
        "u"," ","="," ","h","e","i","g","h","t"," ","o","f"," ","i","m","a",
        "g","e","/","h","e","i","g","h","t"," ","o","f"," ","o","b","j","e",
        "c","t","."," ","F","o","r"," ","c","o","n","c","a","v","e"," ","m",
        "i","r","r","o","r","s",","," ","f","o","c","a","l"," ","l","e","n",
        "g","t","h"," ","i","s"," ","p","o","s","i","t","i","v","e",";"," ",
        "f","o","r"," ","c","o","n","v","e","x"," ","m","i","r","r","o","r",
        "s",","," ","f","o","c","a","l"," ","l","e","n","g","t","h"," ","i",
        "s"," ","n","e","g","a","t","i","v","e",".">>,
      <<"M","i","r","r","o","r"," ","F","o","r","m","u","l","a">>,
      <<"L","i","g","h","t"," ","-"," ","R","e","f","l","e","c","t","i","o",
        "n"," ","a","n","d"," ","R","e","f","r","a","c","t","i","o","n">>),
    Record(
      \* Refraction of Light (src/rag_utils.py)
      <<"R","e","f","r","a","c","t","i","o","n"," ","i","s"," ","t","h","e",
        " ","b","e","n","d","i","n","g"," ","o","f"," ","l","i","g","h","t",
        " ","w","h","e","n"," ","i","t"," ","t","r","a","v","e","l","s"," ",
        "f","r","o","m"," ","o","n","e"," ","t","r","a","n","s","p","a","r",
        "e","n","t"," ","m","e","d","i","u","m"," ","t","o"," ","a","n","o",
        "t","h","e","r","."," ","T","h","i","s"," ","h","a","p","p","e","n",
        "s"," ","d","u","e"," ","t","o"," ","c","h","a","n","g","e"," ","i",
        "n"," ","s","p","e","e","d"," ","o","f"," ","l","i","g","h","t"," ",
        "i","n"," ","d","i","f","f","e","r","e","n","t"," ","m","e","d","i",
        "a","."," ","L","a","w","s"," ","o","f"," ","r","e","f","r","a","c",
        "t","i","o","n",":"," ","(","1",")"," ","I","n","c","i","d","e","n",
        "t"," ","r","a","y",","," ","r","e","f","r","a","c","t","e","d"," ",
        "r","a","y"," ","a","n","d"," ","n","o","r","m","a","l"," ","l","i",
        "e"," ","i","n"," ","t","h","e"," ","s","a","m","e"," ","p","l","a",
        "n","e","."," ","(","2",")"," ","S","n","e","l","l","'","s"," ","l",
        "a","w",":"," ","n","U+2081","s","i","n","(","U+03B8","U+2081",")",
        " ","="," ","n","U+2082","s","i","n","(","U+03B8","U+2082",")",",",
        " ","w","h","e","r","e"," ","n"," ","i","s"," ","r","e","f","r","a",
        "c","t","i","v","e"," ","i","n","d","e","x",".">>,
      <<"R","e","f","r","a","c","t","i","o","n"," ","o","f"," ","L","i","g",
        "h","t">>,
      <<"L","i","g","h","t"," ","-"," ","R","e","f","l","e","c","t","i","o",
        "n"," ","a","n","d"," ","R","e","f","r","a","c","t","i","o","n">>),
    Record(
      \* Lenses (src/rag_utils.py)
      <<"A"," ","l","e","n","s"," ","i","s"," ","a"," ","t","r","a","n","s",
        "p","a","r","e","n","t"," ","o","b","j","e","c","t"," ","w","i","t",
        "h"," ","a","t"," ","l","e","a","s","t"," ","o","n","e"," ","c","u",
        "r","v","e","d"," ","s","u","r","f","a","c","e"," ","t","h","a","t",
        " ","c","a","n"," ","c","o","n","v","e","r","g","e"," ","o","r"," ",
        "d","i","v","e","r","g","e"," ","l","i","g","h","t"," ","r","a","y",
        "s","."," ","C","o","n","v","e","x"," ","l","e","n","s"," ","(","c",
        "o","n","v","e","r","g","i","n","g"," ","l","e","n","s",")"," ","-",
        " ","t","h","i","c","k","e","r"," ","a","t"," ","c","e","n","t","e",
        "r",","," ","f","o","c","a","l"," ","l","e","n","g","t","h"," ","p",
        "o","s","i","t","i","v","e",","," ","c","a","n"," ","f","o","r","m",
        " ","r","e","a","l"," ","a","n","d"," ","v","i","r","t","u","a","l",
        " ","i","m","a","g","e","s","."," ","C","o","n","c","a","v","e"," ",
        "l","e","n","s"," ","(","d","i","v","e","r","g","i","n","g"," ","l",
        "e","n","s",")"," ","-"," ","t","h","i","n","n","e","r"," ","a","t",
        " ","c","e","n","t","e","r",","," ","f","o","c","a","l"," ","l","e",
        "n","g","t","h"," ","n","e","g","a","t","i","v","e",","," ","a","l",
        "w","a","y","s"," ","f","o","r","m","s"," ","v","i","r","t","u","a",
        "l"," ","i","m","a","g","e","s",".">>,
      <<"L","e","n","s","e","s">>,
      <<"L","i","g","h","t"," ","-"," ","R","e","f","l","e","c","t","i","o",
        "n"," ","a","n","d"," ","R","e","f","r","a","c","t","i","o","n">>),
    Record(
      \* Lens Formula and Human Eye (src/rag_utils.py)
      <<"L","e","n","s"," ","f","o","r","m","u","l","a",":"," ","1","/","v",
        " ","-"," ","1","/","u"," ","="," ","1","/","f","."," ","P","o","w",
        "e","r"," ","o","f"," ","l","e","n","s"," ","P"," ","="," ","1","/",
        "f"," ","(","i","n"," ","m","e","t","e","r","s",")",","," ","m","e",
        "a","s","u","r","e","d"," ","i","n"," ","d","i","o","p","t","e","r",
        "s"," ","(","D",")","."," ","F","o","r"," ","c","o","m","b","i","n",
        "a","t","i","o","n"," ","o","f"," ","l","e","n","s","e","s",":"," ",
        "P"," ","="," ","P","U+2081"," ","+"," ","P","U+2082"," ","+"," ",
        ".",".","."," ","T","h","e"," ","h","u","m","a","n"," ","e","y","e",
        " ","w","o","r","k","s"," ","l","i","k","e"," ","a"," ","c","a","m",
        "e","r","a"," ","w","i","t","h"," ","a"," ","c","o","n","v","e","x",
        " ","l","e","n","s"," ","(","c","r","y","s","t","a","l","l","i","n",
        "e"," ","l","e","n","s",")"," ","f","o","r","m","i","n","g"," ","r",
        "e","a","l",","," ","i","n","v","e","r","t","e","d"," ","i","m","a",
        "g","e","s"," ","o","n"," ","r","e","t","i","n","a",".">>,
      <<"L","e","n","s"," ","F","o","r","m","u","l","a"," ","a","n","d"," ",
        "H","u","m","a","n"," ","E","y","e">>,
      <<"L","i","g","h","t"," ","-"," ","R","e","f","l","e","c","t","i","o",
        "n"," ","a","n","d"," ","R","e","f","r","a","c","t","i","o","n">>),
    Record(
      \* Electric Current (src/rag_utils.py)
      <<"E","l","e","c","t","r","i","c"," ","c","u","r","r","e","n","t"," ",
        "i","s"," ","t","h","e"," ","f","l","o","w"," ","o","f"," ","e","l",
        "e","c","t","r","i","c"," ","c","h","a","r","g","e"," ","t","h","r",
        "o","u","g","h"," ","a"," ","c","o","n","d","u","c","t","o","r",".",
        " ","S","I"," ","u","n","i","t"," ","i","s"," ","a","m","p","e","r",
        "e"," ","(","A",")","."," ","O","n","e"," ","a","m","p","e","r","e",
        " ","="," ","1"," ","c","o","u","l","o","m","b","/","s","e","c","o",
        "n","d","."," ","C","u","r","r","e","n","t"," ","f","l","o","w","s",
        " ","f","r","o","m"," ","p","o","s","i","t","i","v","e"," ","t","e",
        "r","m","i","n","a","l"," ","t","o"," ","n","e","g","a","t","i","v",
        "e"," ","t","e","r","m","i","n","a","l"," ","(","c","o","n","v","e",
        "n","t","i","o","n","a","l"," ","c","u","r","r","e","n","t"," ","d",
        "i","r","e","c","t","i","o","n",")","."," ","I","n"," ","m","e","t",
        "a","l","s",","," ","c","u","r","r","e","n","t"," ","i","s"," ","d",
        "u","e"," ","t","o"," ","f","l","o","w"," ","o","f"," ","f","r","e",
        "e"," ","e","l","e","c","t","r","o","n","s"," ","(","o","p","p","o",
        "s","i","t","e"," ","t","o"," ","c","o","n","v","e","n","t","i","o",
        "n","a","l"," ","c","u","r","r","e","n","t",")",".">>,
      <<"E","l","e","c","t","r","i","c"," ","C","u","r","r","e","n","t">>,
      <<"E","l","e","c","t","r","i","c","i","t","y">>),
    Record(
      \* Electric Potential (src/rag_utils.py)
      <<"E","l","e","c","t","r","i","c"," ","p","o","t","e","n","t","i","a",
        "l"," ","d","i","f","f","e","r","e","n","c","e"," ","(","v","o","l",
        "t","a","g","e",")"," ","i","s"," ","t","h","e"," ","w","o","r","k",
        " ","d","o","n","e"," ","p","e","r"," ","u","n","i","t"," ","c","h",
        "a","r","g","e"," ","t","o"," ","m","o","v","e"," ","c","h","a","r",
        "g","e"," ","b","e","t","w","e","e","n"," ","t","w","o"," ","p","o",
        "i","n","t","s","."," ","V"," ","="," ","W","/","Q","."," ","S","I",
        " ","u","n","i","t"," ","i","s"," ","v","o","l","t"," ","(","V",")",
        "."," ","O","n","e"," ","v","o","l","t"," ","="," ","1"," ","j","o",
        "u","l","e","/","c","o","u","l","o","m","b","."," ","P","o","t","e",
        "n","t","i","a","l"," ","d","i","f","f","e","r","e","n","c","e"," ",
        "d","r","i","v","e","s"," ","c","u","r","r","e","n","t"," ","t","h",
        "r","o","u","g","h"," ","a"," ","c","i","r","c","u","i","t","."," ",
        "H","i","g","h","e","r"," ","v","o","l","t","a","g","e"," ","m","e",
        "a","n","s"," ","m","o","r","e"," ","e","n","e","r","g","y"," ","p",
        "e","r"," ","u","n","i","t"," ","c","h","a","r","g","e",".">>,
      <<"E","l","e","c","t","r","i","c"," ","P","o","t","e","n","t","i","a",
        "l">>,
      <<"E","l","e","c","t","r","i","c","i","t","y">>),
    Record(
      \* Ohm's Law (src/rag_utils.py)
      <<"O","h","m","'","s"," ","L","a","w"," ","s","t","a","t","e","s"," ",
        "t","h","a","t"," ","c","u","r","r","e","n","t"," ","t","h","r","o",
        "u","g","h"," ","a"," ","c","o","n","d","u","c","t","o","r"," ","i",
        "s"," ","d","i","r","e","c","t","l","y"," ","p","r","o","p","o","r",
        "t","i","o","n","a","l"," ","t","o"," ","p","o","t","e","n","t","i",
        "a","l"," ","d","i","f","f","e","r","e","n","c","e"," ","a","c","r",
        "o","s","s"," ","i","t",","," ","p","r","o","v","i","d","e","d"," ",
        "t","e","m","p","e","r","a","t","u","r","e"," ","r","e","m","a","i",
        "n","s"," ","c","o","n","s","t","a","n","t","."," ","V"," ","="," ",
        "I"," ","U+00D7"," ","R",","," ","w","h","e","r","e"," ","V"," ",
        "="," ","v","o","l","t","a","g","e",","," ","I"," ","="," ","c","u",
        "r","r","e","n","t",","," ","R"," ","="," ","r","e","s","i","s","t",
        "a","n","c","e","."," ","R","e","s","i","s","t","a","n","c","e"," ",
        "o","p","p","o","s","e","s"," ","f","l","o","w"," ","o","f"," ","c",
        "u","r","r","e","n","t","."," ","S","I"," ","u","n","i","t"," ","o",
        "f"," ","r","e","s","i","s","t","a","n","c","e"," ","i","s"," ","o",
        "h","m"," ","(","U+03A9",")",".">>,
      <<"O","h","m","'","s"," ","L","a","w">>,
      <<"E","l","e","c","t","r","i","c","i","t","y">>),
    Record(
      \* Resistance (src/rag_utils.py)
      <<"F","a","c","t","o","r","s"," ","a","f","f","e","c","t","i","n","g",
        " ","r","e","s","i","s","t","a","n","c","e",":"," ","(","1",")"," ",
        "L","e","n","g","t","h"," ","-"," ","R"," ","U+221D"," ","l"," ",
        "(","2",")"," ","A","r","e","a"," ","o","f"," ","c","r","o","s","s",
        "-","s","e","c","t","i","o","n"," ","-"," ","R"," ","U+221D"," ",
        "1","/","A"," ","(","3",")"," ","M","a","t","e","r","i","a","l"," ",
        "-"," ","d","e","p","e","n","d","s"," ","o","n"," ","r","e","s","i",
        "s","t","i","v","i","t","y"," ","U+03C1"," ","(","4",")"," ","T",
        "e","m","p","e","r","a","t","u","r","e"," ","-"," ","f","o","r"," ",
        "c","o","n","d","u","c","t","o","r","s",","," ","R"," ","i","n","c",
        "r","e","a","s","e","s"," ","w","i","t","h"," ","t","e","m","p","e",
        "r","a","t","u","r","e","."," ","F","o","r","m","u","l","a",":"," ",
        "R"," ","="," ","U+03C1","l","/","A","."," ","R","e","s","i","s",
        "t","i","v","i","t","y"," ","i","s"," ","a"," ","m","a","t","e","r",
        "i","a","l"," ","p","r","o","p","e","r","t","y",".">>,
      <<"R","e","s","i","s","t","a","n","c","e">>,
      <<"E","l","e","c","t","r","i","c","i","t","y">>),
    Record(
      \* Resistor Combinations (src/rag_utils.py)
      <<"S","e","r","i","e","s"," ","c","o","m","b","i","n","a","t","i","o",
        "n",":"," ","R","e","s","i","s","t","a","n","c","e","s"," ","a","d",
        "d"," ","u","p",","," ","R","s"," ","="," ","R","U+2081"," ","+",
        " ","R","U+2082"," ","+"," ","R","U+2083",".",".","."," ","C","u",
        "r","r","e","n","t"," ","s","a","m","e"," ","t","h","r","o","u","g",
        "h"," ","a","l","l"," ","r","e","s","i","s","t","o","r","s","."," ",
        "P","a","r","a","l","l","e","l"," ","c","o","m","b","i","n","a","t",
        "i","o","n",":"," ","1","/","R","p"," ","="," ","1","/","R",
        "U+2081"," ","+"," ","1","/","R","U+2082"," ","+"," ","1","/","R",
        "U+2083",".",".","."," ","V","o","l","t","a","g","e"," ","s","a",
        "m","e"," ","a","c","r","o","s","s"," ","a","l","l"," ","r","e","s",
        "i","s","t","o","r","s","."," ","P","a","r","a","l","l","e","l"," ",
        "c","o","m","b","i","n","a","t","i","o","n"," ","g","i","v","e","s",
        " ","l","e","s","s"," ","t","o","t","a","l"," ","r","e","s","i","s",
        "t","a","n","c","e"," ","t","h","a","n"," ","i","n","d","i","v","i",
        "d","u","a","l"," ","r","e","s","i","s","t","a","n","c","e","s",".">>,
      <<"R","e","s","i","s","t","o","r"," ","C","o","m","b","i","n","a","t",
        "i","o","n","s">>,
      <<"E","l","e","c","t","r","i","c","i","t","y">>),
    Record(
      \* Electric Power (src/rag_utils.py)
      <<"E","l","e","c","t","r","i","c"," ","p","o","w","e","r"," ","i","s",
        " ","t","h","e"," ","r","a","t","e"," ","o","f"," ","c","o","n","s",
        "u","m","p","t","i","o","n"," ","o","f"," ","e","l","e","c","t","r",
        "i","c"," ","e","n","e","r","g","y","."," ","P"," ","="," ","V","I",
        " ","="," ","I","U+00B2","R"," ","="," ","V","U+00B2","/","R",".",
        " ","S","I"," ","u","n","i","t"," ","i","s"," ","w","a","t","t"," ",
        "(","W",")","."," ","E","l","e","c","t","r","i","c"," ","e","n","e",
        "r","g","y"," ","c","o","n","s","u","m","e","d"," ","="," ","P"," ",
        "U+00D7"," ","t"," ","="," ","V","I","t","."," ","C","o","m","m",
        "e","r","c","i","a","l"," ","u","n","i","t"," ","o","f"," ","e","n",
        "e","r","g","y"," ","i","s"," ","k","i","l","o","w","a","t","t","-",
        "h","o","u","r"," ","(","k","W","h",")","."," ","1"," ","k","W","h",
        " ","="," ","3",".","6"," ","U+00D7"," ","1","0","U+2076"," ","J",
        "."," ","E","l","e","c","t","r","i","c"," ","b","i","l","l"," ","i",
        "s"," ","b","a","s","e","d"," ","o","n"," ","e","n","e","r","g","y",
        " ","c","o","n","s","u","m","e","d",".">>,
      <<"E","l","e","c","t","r","i","c"," ","P","o","w","e","r">>,
      <<"E","l","e","c","t","r","i","c","i","t","y">>),
    Record(
      \* Magnetic Field (src/rag_utils.py)
      <<"A"," ","m","a","g","n","e","t","i","c"," ","f","i","e","l","d"," ",
        "e","x","i","s","t","s"," ","a","r","o","u","n","d"," ","a"," ","m",
        "a","g","n","e","t"," ","a","n","d"," ","c","u","r","r","e","n","t",
        "-","c","a","r","r","y","i","n","g"," ","c","o","n","d","u","c","t",
        "o","r","."," ","M","a","g","n","e","t","i","c"," ","f","i","e","l",
        "d"," ","l","i","n","e","s"," ","a","r","e"," ","i","m","a","g","i",
        "n","a","r","y"," ","l","i","n","e","s"," ","s","h","o","w","i","n",
        "g"," ","d","i","r","e","c","t","i","o","n"," ","o","f"," ","m","a",
        "g","n","e","t","i","c"," ","f","i","e","l","d","."," ","T","h","e",
        "y"," ","e","m","e","r","g","e"," ","f","r","o","m"," ","N","o","r",
        "t","h"," ","p","o","l","e"," ","a","n","d"," ","e","n","t","e","r",
        " ","S","o","u","t","h"," ","p","o","l","e","."," ","F","i","e","l",
        "d"," ","l","i","n","e","s"," ","n","e","v","e","r"," ","i","n","t",
        "e","r","s","e","c","t","."," ","U","n","i","f","o","r","m"," ","f",
        "i","e","l","d"," ","h","a","s"," ","p","a","r","a","l","l","e","l",
        ","," ","e","q","u","a","l","l","y"," ","s","p","a","c","e","d"," ",
        "l","i","n","e","s",".">>,
      <<"M","a","g","n","e","t","i","c"," ","F","i","e","l","d">>,
      <<"M","a","g","n","e","t","i","c"," ","E","f","f","e","c","t","s"," ",
        "o","f"," ","E","l","e","c","t","r","i","c"," ","C","u","r","r","e",
        "n","t">>),
    Record(
      \* Magnetic Field due to Current (src/rag_utils.py)
      <<"C","u","r","r","e","n","t","-","c","a","r","r","y","i","n","g"," ",
        "c","o","n","d","u","c","t","o","r"," ","p","r","o","d","u","c","e",
        "s"," ","m","a","g","n","e","t","i","c"," ","f","i","e","l","d",".",
        " ","D","i","r","e","c","t","i","o","n"," ","g","i","v","e","n"," ",
        "b","y"," ","R","i","g","h","t"," ","H","a","n","d"," ","T","h","u",
        "m","b"," ","R","u","l","e",":"," ","T","h","u","m","b"," ","s","h",
        "o","w","s"," ","c","u","r","r","e","n","t"," ","d","i","r","e","c",
        "t","i","o","n",","," ","f","i","n","g","e","r","s"," ","c","u","r",
        "l"," ","i","n"," ","d","i","r","e","c","t","i","o","n"," ","o","f",
        " ","m","a","g","n","e","t","i","c"," ","f","i","e","l","d","."," ",
        "F","o","r"," ","c","i","r","c","u","l","a","r"," ","l","o","o","p",
        ":"," ","f","i","e","l","d"," ","l","i","n","e","s"," ","a","r","e",
        " ","c","i","r","c","u","l","a","r"," ","n","e","a","r"," ","w","i",
        "r","e",","," ","s","t","r","a","i","g","h","t"," ","a","t"," ","c",
        "e","n","t","e","r","."," ","F","o","r"," ","s","o","l","e","n","o",
        "i","d",":"," ","b","e","h","a","v","e","s"," ","l","i","k","e"," ",
        "b","a","r"," ","m","a","g","n","e","t",".">>,
      <<"M","a","g","n","e","t","i","c"," ","F","i","e","l","d"," ","d","u",
        "e"," ","t","o"," ","C","u","r","r","e","n","t">>,
      <<"M","a","g","n","e","t","i","c"," ","E","f","f","e","c","t","s"," ",
        "o","f"," ","E","l","e","c","t","r","i","c"," ","C","u","r","r","e",
        "n","t">>),
    Record(
      \* Force on Current-carrying Conductor (src/rag_utils.py)
      <<"F","o","r","c","e"," ","o","n"," ","c","u","r","r","e","n","t","-",
        "c","a","r","r","y","i","n","g"," ","c","o","n","d","u","c","t","o",
        "r"," ","i","n"," ","m","a","g","n","e","t","i","c"," ","f","i","e",
        "l","d",":"," ","F"," ","="," ","B","I","l"," ","s","i","n"," ",
        "U+03B8",","," ","w","h","e","r","e"," ","B"," ","="," ","m","a",
        "g","n","e","t","i","c"," ","f","i","e","l","d",","," ","I"," ","=",
        " ","c","u","r","r","e","n","t",","," ","l"," ","="," ","l","e","n",
        "g","t","h",","," ","U+03B8"," ","="," ","a","n","g","l","e",".",
        " ","D","i","r","e","c","t","i","o","n"," ","b","y"," ","F","l","e",
        "m","i","n","g","'","s"," ","L","e","f","t"," ","H","a","n","d"," ",
        "R","u","l","e",":"," ","T","h","u","m","b"," ","="," ","F","o","r",
        "c","e",","," ","I","n","d","e","x"," ","f","i","n","g","e","r"," ",
        "="," ","F","i","e","l","d",","," ","M","i","d","d","l","e"," ","f",
        "i","n","g","e","r"," ","="," ","C","u","r","r","e","n","t","."," ",
        "U","s","e","d"," ","i","n"," ","e","l","e","c","t","r","i","c"," ",
        "m","o","t","o","r","s",".">>,
      <<"F","o","r","c","e"," ","o","n"," ","C","u","r","r","e","n","t","-",
        "c","a","r","r","y","i","n","g"," ","C","o","n","d","u","c","t","o",
        "r">>,
      <<"M","a","g","n","e","t","i","c"," ","E","f","f","e","c","t","s"," ",
        "o","f"," ","E","l","e","c","t","r","i","c"," ","C","u","r","r","e",
        "n","t">>),
    Record(
      \* Electromagnetic Induction (src/rag_utils.py)
      <<"E","l","e","c","t","r","o","m","a","g","n","e","t","i","c"," ","i",
        "n","d","u","c","t","i","o","n",":"," ","W","h","e","n"," ","m","a",
        "g","n","e","t","i","c"," ","f","l","u","x"," ","t","h","r","o","u",
        "g","h"," ","a"," ","c","o","n","d","u","c","t","o","r"," ","c","h",
        "a","n","g","e","s",","," ","E","M","F"," ","i","s"," ","i","n","d",
        "u","c","e","d","."," ","F","a","r","a","d","a","y","'","s"," ","l",
        "a","w","s",":"," ","(","1",")"," ","C","h","a","n","g","i","n","g",
        " ","m","a","g","n","e","t","i","c"," ","f","l","u","x"," ","i","n",
        "d","u","c","e","s"," ","E","M","F","."," ","(","2",")"," ","I","n",
        "d","u","c","e","d"," ","E","M","F"," ","="," ","-","d","U+03A6",
        "/","d","t","."," ","F","l","e","m","i","n","g","'","s"," ","R","i",
        "g","h","t"," ","H","a","n","d"," ","R","u","l","e"," ","g","i","v",
        "e","s"," ","d","i","r","e","c","t","i","o","n"," ","o","f"," ","i",
        "n","d","u","c","e","d"," ","c","u","r","r","e","n","t","."," ","U",
        "s","e","d"," ","i","n"," ","g","e","n","e","r","a","t","o","r","s",
        ","," ","t","r","a","n","s","f","o","r","m","e","r","s",".">>,
      <<"E","l","e","c","t","r","o","m","a","g","n","e","t","i","c"," ","I",
        "n","d","u","c","t","i","o","n">>,
      <<"M","a","g","n","e","t","i","c"," ","E","f","f","e","c","t","s"," ",
        "o","f"," ","E","l","e","c","t","r","i","c"," ","C","u","r","r","e",
        "n","t">>)
>>)

----------------------------------------------------------------------------
(* The store: the file at knowledge_base_path.  A path is the sequence of  *)
(* its components; fs describes the file system at that path.              *)

\* os.path.dirname(path)
dirname(path) == SubSeq(path, 1, Len(path) - 1)

\* _create_sample_knowledge_base: [raised, fs]; on success the file holds
\* the dump of sample_chunks and knowledge_chunks becomes sample_chunks
create_sample_knowledge_base(path, fs) ==
    IF dirname(path) = <<>>
    THEN \* os.makedirs('') raises FileNotFoundError
         [raised |-> TRUE, fs |-> fs]
    ELSE IF ~fs.dir_exists /\ ~fs.can_write
    THEN \* os.makedirs cannot create the directory
         [raised |-> TRUE, fs |-> fs]
    ELSE IF ~fs.can_write
    THEN \* open(path, 'w') is refused
         [raised |-> TRUE, fs |-> fs]
    ELSE [raised |-> FALSE,
          fs |-> [fs EXCEPT !.dir_exists = TRUE, !.exists = TRUE,
                            !.text = json_dump(sample_chunks)]]

\* the except branch, and the else branch once its own call has raised:
\* _create_sample_knowledge_base called outside any try
Fallback(path, fs, chunks, took) ==
    Let1(create_sample_knowledge_base(path, fs),
         LAMBDA c :
           [raised |-> c.raised, fs |-> c.fs, took |-> took,
            knowledge_chunks |-> IF c.raised THEN chunks ELSE sample_chunks])

\* types on which len() is defined
Sized == {"list", "dict", "str"}

\* what load_knowledge_base finds at the path, by the branch it takes
StoreShape(fs) ==
    IF ~fs.exists THEN "missing"
    ELSE IF ~fs.can_read THEN "unreadable"
    ELSE Let1(json_load(fs.text),
              LAMBDA data :
                IF ~data.ok THEN "unparsable"
                ELSE IF data.v.t = "list" THEN "list"
                ELSE IF data.v.t = "dict" /\ HasKey(data.v, K_chunks)
                        /\ get(data.v, K_chunks, PyNone).t = "list"
                THEN "chunks list"
                ELSE "other")

\* load_knowledge_base on an object whose knowledge_chunks is chunks:
\* [raised, fs, knowledge_chunks, took], took naming the branch that ended it
load_knowledge_base(path, fs, chunks) ==
    IF fs.exists
    THEN IF ~fs.can_read
         THEN Fallback(path, fs, chunks, "except")
         ELSE Let1(json_load(fs.text),
                   LAMBDA data :
                     IF ~data.ok THEN Fallback(path, fs, chunks, "except")
                     ELSE IF data.v.t = "list"
                     THEN [raised |-> FALSE, fs |-> fs, took |-> "read",
                           knowledge_chunks |-> data.v]
                     ELSE IF data.v.t # "dict"
                     THEN \* data.get raises AttributeError
                          Fallback(path, fs, chunks, "except")
                     ELSE IF get(data.v, K_chunks, PyList(<<>>)).t \in Sized
                     THEN [raised |-> FALSE, fs |-> fs, took |-> "read",
                           knowledge_chunks |-> get(data.v, K_chunks, PyList(<<>>))]
                     ELSE \* len(self.knowledge_chunks) raises TypeError
                          Fallback(path, fs, get(data.v, K_chunks, PyList(<<>>)),
                                   "except"))
    ELSE Let1(create_sample_knowledge_base(path, fs),
              LAMBDA c :
                IF c.raised THEN Fallback(path, c.fs, chunks, "except")
                ELSE [raised |-> FALSE, fs |-> c.fs, took |-> "created",
                      knowledge_chunks |-> sample_chunks])

----------------------------------------------------------------------------
(* Bounds and the inputs the model draws from                               *)

MaxTopK  == 2    \* top_k ranges over -MaxTopK..MaxTopK
MaxLoads == 2    \* constructions of a RAGKnowledgeBase on the path
MaxDeletes == 1  \* deletions of the store by the environment

Paths == {<<"kb.json">>, <<"data", "kb.json">>}

\* small chunk records: equal records at two positions, fields in mixed case,
\* a field with characters that the dump escapes, records with fields missing,
\* and a text that scores exactly 0.1 against the query "AB" (one matching
\* character out of 20, no keyword)
ChunkA == Record(<<"a","b"," ","a">>, <<"a","b">>, <<"A">>)
ChunkB == Record(<<"b","b","b">>, <<"b">>, <<"A"," ","B">>)
ChunkC == Record(<<"c","\"","c","\\","c">>, <<"c">>, <<"c","c">>)
ChunkD == PyDict(<< <<K_chunk, PyStr(<<"b","a">>)>> >>)
ChunkE == PyDict(<< <<K_subtopic, PyStr(<<"a","b">>)>>, <<K_chapter, PyStr(<<"A">>)>> >>)
ChunkF == Record(<<"a","c","c","c","c","c","c","c","c","c","c","c","c","c","c","c","c","c">>,
                 <<"c">>, <<"c">>)

Corpora == <<PyList(<<>>),
             PyList(<<ChunkA, ChunkB, ChunkC, ChunkA>>),
             PyList(<<ChunkD, ChunkB, ChunkE, ChunkF, ChunkD>>),
             PyList(<<ChunkF, ChunkE>>)>>

\* what the store may hold: a bare list, an object with a chunks list, an
\* object without one, an object whose chunks is no list, a scalar, and
\* texts that do not parse
StoreValues ==
    Corpora
    \o [i \in 1..Len(Corpora) |-> PyDict(<< <<K_chunks, Corpora[i]>> >>)]
    \o <<PyDict(<< <<K_chunk, PyList(<<ChunkA>>)>> >>),
         PyDict(<< <<K_chunks, PyInt(5)>> >>),
         PyDict(<< <<K_chunks, PyNone>> >>),
         PyInt(17), PyNone>>

StoreTexts ==
    {json_dump(StoreValues[i]) : i \in 1..Len(StoreValues)}
    \cup {<<>>, <<"[", "{">>, <<"[", "]", " ", "x">>}

Queries == {<<>>, <<"a">>, <<"A","B">>, <<"b"," ","a">>, <<"z","z">>}

TopKs == (0 - MaxTopK)..MaxTopK

\* ChunkA without the fields of the set missing
Lacking(missing) ==
    PyDict(SelectSeq(ChunkA.v, LAMBDA item : item[1] \notin missing))

\* a record for every subset of the three fields that can be missing
LackingCorpus ==
    PyList(<<Lacking({}), Lacking({K_chunk}), Lacking({K_subtopic}),
             Lacking({K_chapter}), Lacking({K_chunk, K_subtopic}),
             Lacking({K_chunk, K_chapter}), Lacking({K_subtopic, K_chapter}),
             Lacking({K_chunk, K_subtopic, K_chapter})>>)

\* a record whose chunk field is null
\* a record whose three fields are, but for letter case, the query
\* "a a b a b"
ChunkG == Record(<<"a"," ","a"," ","b"," ","a"," ","b">>,
                 <<"A"," ","a"," ","B"," ","a"," ","b">>,
                 <<"A"," ","A"," ","B"," ","A"," ","B">>)

ChunkN == PyDict(<< <<K_chunk, PyNone>>, <<K_subtopic, PyStr(<<"a","b">>)>> >>)

\* the corpora a constructed retriever holds: the small ones, the built-in
\* one, the one with fields missing and one with a malformed record
QueryCorpora ==
    Corpora \o <<sample_chunks, LackingCorpus, PyList(<<ChunkA, ChunkN>>),
                 PyList(<<ChunkA, ChunkG>>)>>

OhmsLaw == <<"O","h","m","'","s"," ","l","a","w">>

\* five word tokens, two distinct, and the same query in other letter case
RepeatQuery == <<"a"," ","a"," ","b"," ","a"," ","b">>
RepeatQueryUpper == <<"A"," ","a"," ","B"," ","A"," ","b">>

ContextQueries == Queries \cup {OhmsLaw, RepeatQuery, RepeatQueryUpper, <<"a","b">>}

\* max_context_length: negative, zero, the length of one small block, of two,
\* values between the lengths of one, two and three blocks of the built-in
\* corpus, and the default
\* (38 is the length of two small blocks without the separator)
MaxContextLengths == {0 - 1, 0, 12, 19, 38, 40, 660, 700, 1200}

\* the argument of get_chapter_topics: omitted, empty, or a string
ChapterArgs ==
    <<PyNone, PyStr(<<>>),
      PyStr(<<"E","l","e","c","t","r","i","c","i","t","y">>),
      PyStr(<<"E","L","E","C","T","R","I","C">>),
      PyStr(<<"a">>), PyStr(<<"c">>)>>

----------------------------------------------------------------------------
(* The state machine                                                        *)

\* knowledge_base_path : self.knowledge_base_path
\* fs                  : the file system at that path
\* knowledge_chunks    : self.knowledge_chunks
\* constructed         : "none", "ok", or "raised" when __init__ raised
\* log                 : the loads (what each found and did) and deletions so far
\* call                : the call that has just returned, if any: its arguments,
\*                       the scores it computed and its result
VARIABLES knowledge_base_path, fs, knowledge_chunks, constructed, log, call

vars == <<knowledge_base_path, fs, knowledge_chunks, constructed, log, call>>

NoCall == [op |-> "none", query |-> <<>>, top_k |-> 0, raised |-> FALSE,
           totals |-> <<>>, scored_chunks |-> <<>>, result |-> <<>>]

Loads   == Cardinality({i \in 1..Len(log) : log[i].op = "load"})
Deletes == Cardinality({i \in 1..Len(log) : log[i].op = "delete"})

Init ==
    /\ knowledge_base_path \in Paths
    /\ fs \in {f \in [dir_exists : BOOLEAN, exists : BOOLEAN,
                      text : StoreTexts \cup {<<>>},
                      can_read : BOOLEAN, can_write : BOOLEAN] :
                 /\ dirname(knowledge_base_path) = <<>> => f.dir_exists
                 /\ f.exists => f.dir_exists
                 /\ ~f.exists => f.text = <<>> /\ f.can_read}
    /\ knowledge_chunks = PyList(<<>>)
    /\ constructed = "none"
    /\ log = <<>>
    /\ call = NoCall

\* RAGKnowledgeBase(knowledge_base_path): __init__ with load_knowledge_base
Construct ==
    /\ call = NoCall
    /\ Loads < MaxLoads
    /\ \E r \in {load_knowledge_base(knowledge_base_path, fs, PyList(<<>>))} :
          /\ fs' = r.fs
          /\ knowledge_chunks' = r.knowledge_chunks
          /\ constructed' = IF r.raised THEN "raised" ELSE "ok"
          /\ log' = Append(log, [op |-> "load", store |-> StoreShape(fs),
                                 took |-> r.took, raised |-> r.raised])
    /\ UNCHANGED <<knowledge_base_path, call>>

\* the environment deletes the store
DeleteStore ==
    /\ call = NoCall
    /\ fs.exists
    /\ Deletes < MaxDeletes
    /\ fs' = [fs EXCEPT !.exists = FALSE, !.text = <<>>, !.can_read = TRUE]
    /\ log' = Append(log, [op |-> "delete", store |-> "none",
                           took |-> "none", raised |-> FALSE])
    /\ UNCHANGED <<knowledge_base_path, knowledge_chunks, constructed, call>>

\* rag.search_relevant_chunks(query, top_k) on a corpus of chunk records
Search ==
    /\ constructed = "ok"
    /\ call = NoCall
    /\ \E query \in Queries, top_k \in TopKs :
          \E r \in {search_relevant_chunks(knowledge_chunks, query, top_k)} :
             call' = [op |-> "search", query |-> query, top_k |-> top_k,
                      raised |-> r.raised, totals |-> r.totals,
                      scored_chunks |-> r.scored_chunks, result |-> r.result]
    /\ knowledge_chunks' =
          chunks_after_reads(knowledge_chunks, <<K_chunk, K_subtopic, K_chapter>>)
    /\ UNCHANGED <<knowledge_base_path, fs, constructed, log>>

\* the caller is done with the returned value
Return ==
    /\ call # NoCall
    /\ call' = NoCall
    /\ UNCHANGED <<knowledge_base_path, fs, knowledge_chunks, constructed, log>>

Next == Construct \/ DeleteStore \/ Search \/ Return

Spec == Init /\ [][Next]_vars

----------------------------------------------------------------------------
(* The constructed retriever and its three read operations                  *)

\* after RAGKnowledgeBase(path) has read a store that holds a list
QueryInit ==
    /\ knowledge_base_path = <<"data", "kb.json">>
    /\ \E i \in 1..Len(QueryCorpora) :
          /\ knowledge_chunks = QueryCorpora[i]
          /\ fs = [dir_exists |-> TRUE, exists |-> TRUE,
                   text |-> json_dump(QueryCorpora[i]),
                   can_read |-> TRUE, can_write |-> TRUE]
    /\ constructed = "ok"
    /\ log = <<[op |-> "load", store |-> "list", took |-> "read",
                raised |-> FALSE]>>
    /\ call = NoCall

\* rag.get_context_for_query(query, max_context_length)
GetContext ==
    /\ constructed = "ok"
    /\ call = NoCall
    /\ \E query \in ContextQueries, max_context_length \in MaxContextLengths :
          \E r \in {get_context_for_query(knowledge_chunks, query,
                                          max_context_length)} :
             call' = [op |-> "context", query |-> query,
                      max_context_length |-> max_context_length,
                      raised |-> r.raised, totals |-> r.search.totals,
                      scored_chunks |-> r.search.scored_chunks,
                      relevant_chunks |-> r.search.result,
                      blocks |-> r.blocks, included |-> r.included,
                      result |-> r.result]
    /\ knowledge_chunks' =
          chunks_after_reads(knowledge_chunks, <<K_chunk, K_subtopic, K_chapter>>)
    /\ UNCHANGED <<knowledge_base_path, fs, constructed, log>>

\* rag.get_chapter_topics(chapter)
GetTopics ==
    /\ constructed = "ok"
    /\ call = NoCall
    /\ \E a \in 1..Len(ChapterArgs) :
          \E r \in {get_chapter_topics(knowledge_chunks, ChapterArgs[a])} :
             \E result \in r.results :
                call' = [op |-> "topics", chapter |-> ChapterArgs[a],
                         raised |-> r.raised, result |-> result]
    /\ knowledge_chunks' =
          chunks_after_reads(knowledge_chunks, <<K_subtopic, K_chapter>>)
    /\ UNCHANGED <<knowledge_base_path, fs, constructed, log>>

QueryNext == Search \/ GetContext \/ GetTopics \/ Return

QuerySpec == QueryInit /\ [][QueryNext]_vars

----------------------------------------------------------------------------
(* Concurrent callers of one constructed retriever.  Each caller runs one   *)
(* call at a time, statement by statement; the statements of different      *)
(* callers interleave in any order.  Here call holds the frame of every      *)
(* caller (its arguments and local variables) and the heap of the            *)
(* scored_chunks lists the calls have allocated.                             *)

MaxCallers == 2

Callers == 1..MaxCallers

ConcQueries == {<<"a">>, <<"A","B">>}

\* the corpora of the retriever the callers share: none and two records
ConcCorpora == <<PyList(<<>>), PyList(<<ChunkA, ChunkB>>)>>

\* top_k of the concurrent searches, max_context_length of the contexts
ConcTopKs == {2}
ConcMaxContextLengths == {19}

\* get_chapter_topics() and get_chapter_topics("a")
ConcChapterArgs == <<ChapterArgs[1], ChapterArgs[5]>>

IdleFrame ==
    [pc |-> "idle", op |-> "none", query |-> <<>>, top_k |-> 0,
     max_context_length |-> 0, chapter |-> PyNone, i |-> 0,
     relevant_chunks |-> <<>>, context_parts |-> <<>>, current_length |-> 0,
     topics |-> <<>>, result |-> <<>>]

\* one list for all calls, as an attribute of the retriever would be
scored_chunks_shared(t) == 1

\* the list that scored_chunks names in the call of caller t: a local
\* variable, bound to a list of its own
scored_chunks_of(t) == t

\* the state after the step that leaves caller t with frame f and heap h
Stepped(t, f, h) == [frame |-> [call.frame EXCEPT ![t] = f], heap |-> h]

ConcInit ==
    /\ knowledge_base_path = <<"data", "kb.json">>
    /\ knowledge_chunks \in Range(ConcCorpora)
    /\ fs = [dir_exists |-> TRUE, exists |-> TRUE,
             text |-> json_dump(knowledge_chunks),
             can_read |-> TRUE, can_write |-> TRUE]
    /\ constructed = "ok"
    /\ log = <<[op |-> "load", store |-> "list", took |-> "read",
                raised |-> FALSE]>>
    /\ call = [frame |-> [t \in Callers |-> IdleFrame],
               heap |-> [t \in Callers |-> <<>>]]

\* entry of search_relevant_chunks, called directly or by
\* get_context_for_query: the empty-corpus test, scored_chunks = []
EnterSearch(t, f) ==
    IF knowledge_chunks.v = <<>>
    THEN Stepped(t, [f EXCEPT !.pc = "search_return"], call.heap)
    ELSE Stepped(t, [f EXCEPT !.pc = "search_loop", !.i = 1],
                 [call.heap EXCEPT ![scored_chunks_of(t)] = <<>>])

\* caller t calls search_relevant_chunks(query, top_k)
CallSearch(t) ==
    /\ call.frame[t].pc = "idle"
    /\ \E query \in ConcQueries, top_k \in ConcTopKs :
          call' = EnterSearch(t, [IdleFrame EXCEPT !.op = "search",
                                     !.query = query, !.top_k = top_k])
    /\ UNCHANGED <<knowledge_base_path, fs, knowledge_chunks, constructed, log>>

\* caller t calls get_context_for_query(query, max_context_length), which
\* calls search_relevant_chunks(query, top_k=3)
CallContext(t) ==
    /\ call.frame[t].pc = "idle"
    /\ \E query \in ConcQueries, max_context_length \in ConcMaxContextLengths :
          call' = EnterSearch(t, [IdleFrame EXCEPT !.op = "context",
                                     !.query = query, !.top_k = 3,
                                     !.max_context_length = max_context_length])
    /\ UNCHANGED <<knowledge_base_path, fs, knowledge_chunks, constructed, log>>

\* one iteration of the loop of search_relevant_chunks
ScoreChunk(t) ==
    /\ call.frame[t].pc = "search_loop"
    /\ \E f \in {call.frame[t]} :
          \E total \in {total_score(f.query, knowledge_chunks.v[f.i])} :
             call' = Stepped(t,
                        [f EXCEPT !.i = f.i + 1,
                                  !.pc = IF f.i = Len(knowledge_chunks.v)
                                         THEN "search_sort" ELSE "search_loop"],
                        IF FloatLess(Floor, total)
                        THEN [call.heap EXCEPT ![scored_chunks_of(t)] =
                                 Append(@, [chunk |-> f.i, score |-> total])]
                        ELSE call.heap)
    /\ UNCHANGED <<knowledge_base_path, fs, knowledge_chunks, constructed, log>>

\* scored_chunks.sort(key=..., reverse=True)
SortChunks(t) ==
    /\ call.frame[t].pc = "search_sort"
    /\ call' = Stepped(t, [call.frame[t] EXCEPT !.pc = "search_return"],
                       [call.heap EXCEPT ![scored_chunks_of(t)] = sort(@)])
    /\ UNCHANGED <<knowledge_base_path, fs, knowledge_chunks, constructed, log>>

\* the return of search_relevant_chunks, to the caller or into
\* get_context_for_query, which tests the result for emptiness
ReturnSearch(t) ==
    /\ call.frame[t].pc = "search_return"
    /\ \E f \in {call.frame[t]} :
          \E r \in {IF knowledge_chunks.v = <<>> THEN <<>>
                    ELSE Let1(Slice(call.heap[scored_chunks_of(t)], f.top_k),
                              LAMBDA top : [k \in 1..Len(top) |-> top[k].chunk])} :
             call' = Stepped(t,
                        IF f.op = "search"
                        THEN [f EXCEPT !.pc = "done", !.result = r]
                        ELSE IF r = <<>>
                        THEN [f EXCEPT !.pc = "done", !.relevant_chunks = r,
                                       !.result = empty_result_context]
                        ELSE [f EXCEPT !.pc = "context_loop", !.i = 1,
                                       !.relevant_chunks = r],
                        call.heap)
    /\ UNCHANGED <<knowledge_base_path, fs, knowledge_chunks, constructed, log>>

\* one iteration of the loop of get_context_for_query; the break and the
\* end of the loop lead to the return of the joined parts
ContextBlock(t) ==
    /\ call.frame[t].pc = "context_loop"
    /\ \E f \in {call.frame[t]} :
          IF f.i > Len(f.relevant_chunks)
          THEN call' = Stepped(t, [f EXCEPT !.pc = "done",
                                      !.result = Join(f.context_parts)],
                               call.heap)
          ELSE \E block \in {formatted_chunk(
                                knowledge_chunks.v[f.relevant_chunks[f.i]])} :
                  call' = Stepped(t,
                             IF Fits(f.current_length, block, f.max_context_length)
                             THEN [f EXCEPT !.i = f.i + 1,
                                      !.context_parts = Append(@, block),
                                      !.current_length = @ + Len(block)]
                             ELSE [f EXCEPT !.pc = "done",
                                      !.result = Join(f.context_parts)],
                             call.heap)
    /\ UNCHANGED <<knowledge_base_path, fs, knowledge_chunks, constructed, log>>

\* caller t calls get_chapter_topics(chapter): without argument the one
\* return statement, with argument topics = [] and the loop
CallTopics(t) ==
    /\ call.frame[t].pc = "idle"
    /\ \E a \in 1..Len(ConcChapterArgs) :
          IF ~Truthy(ConcChapterArgs[a])
          THEN \E result \in ListOfSet(TruthySubtopics(knowledge_chunks.v)) :
                  call' = Stepped(t, [IdleFrame EXCEPT !.op = "topics",
                                         !.pc = "done", !.result = result],
                                  call.heap)
          ELSE call' = Stepped(t, [IdleFrame EXCEPT !.op = "topics",
                                      !.chapter = ConcChapterArgs[a],
                                      !.pc = "topics_loop", !.i = 1],
                               call.heap)
    /\ UNCHANGED <<knowledge_base_path, fs, knowledge_chunks, constructed, log>>

\* one iteration of the loop of get_chapter_topics; after the last chunk
\* the return of topics
TopicsChunk(t) ==
    /\ call.frame[t].pc = "topics_loop"
    /\ \E f \in {call.frame[t]} :
          IF f.i > Len(knowledge_chunks.v)
          THEN call' = Stepped(t, [f EXCEPT !.pc = "done", !.result = f.topics],
                               call.heap)
          ELSE call' = Stepped(t,
                          [f EXCEPT !.i = f.i + 1,
                                    !.topics = TopicsLoop(
                                        SubSeq(knowledge_chunks.v, 1, f.i), f.i,
                                        lower(f.chapter.v), f.topics)],
                          call.heap)
    /\ UNCHANGED <<knowledge_base_path, fs, knowledge_chunks, constructed, log>>

\* the caller has taken the result
Finish(t) ==
    /\ call.frame[t].pc = "done"
    /\ call' = Stepped(t, IdleFrame, call.heap)
    /\ UNCHANGED <<knowledge_base_path, fs, knowledge_chunks, constructed, log>>

ConcNext ==
    \E t \in Callers :
        \/ CallSearch(t)
        \/ CallContext(t)
        \/ CallTopics(t)
        \/ ScoreChunk(t)
        \/ SortChunks(t)
        \/ ReturnSearch(t)
        \/ ContextBlock(t)
        \/ TopicsChunk(t)
        \/ Finish(t)

ConcSpec == ConcInit /\ [][ConcNext]_vars

----------------------------------------------------------------------------
(* Properties                                                               *)

IsSearch == call.op = "search"

\* total score of the chunk at corpus position i for the query of the call
ScoreAt(i) == call.totals[i]

LastLoad == log[Len(log)]
AfterLoad == log # <<>> /\ LastLoad.op = "load"

DefaultText == json_dump(sample_chunks)
StoreHoldsDefault == fs.exists /\ fs.text = DefaultText

\* C1 as stated: for every query, non-empty corpus and integer top_k,
\* search_relevant_chunks returns at most top_k chunks
C1_AtMostTopK_AnyInteger ==
    IsSearch /\ knowledge_chunks.v # <<>> => Len(call.result) <= call.top_k

\* C1, amended: for every query and non-empty corpus,
\* search_relevant_chunks returns at most top_k chunks when top_k >= 0, and
\* when top_k < 0 it returns the ranking without its last -top_k chunks
C1_AtMostTopK ==
    IsSearch /\ knowledge_chunks.v # <<>> =>
        /\ call.top_k >= 0 => Len(call.result) <= call.top_k
        /\ call.top_k < 0 =>
              /\ Len(call.result) <= Len(call.scored_chunks)
              /\ Len(call.result) + (0 - call.top_k) >= Len(call.scored_chunks)
              /\ Len(call.result) > 0 =>
                    Len(call.result) + (0 - call.top_k) = Len(call.scored_chunks)

\* more chunks clear the floor than top_k allows, and top_k are returned
C1_Witness ==
    /\ IsSearch
    /\ call.top_k >= 1
    /\ Len(call.scored_chunks) > call.top_k
    /\ Len(call.result) = call.top_k

\* C2: every returned chunk has a total score strictly above 0.1; a chunk
\* scoring exactly 0.1 or less is never returned
C2_AboveFloor ==
    IsSearch =>
        \A k \in 1..Len(call.result) : FloatLess(Floor, ScoreAt(call.result[k]))

\* a search that returns a chunk and leaves out one scoring exactly 0.1
C2_Witness ==
    /\ IsSearch
    /\ call.result # <<>>
    /\ \E i \in 1..Len(knowledge_chunks.v) :
          /\ ScoreAt(i) = Floor
          /\ \A k \in 1..Len(call.result) : call.result[k] # i

\* C3: the returned chunks are in order of non-increasing total score, and
\* returned chunks of equal score are in corpus order
C3_SortedStable ==
    IsSearch =>
        \A k \in 1..Len(call.result) : \A l \in (k + 1)..Len(call.result) :
            /\ ~FloatLess(ScoreAt(call.result[k]), ScoreAt(call.result[l]))
            /\ ScoreAt(call.result[k]) = ScoreAt(call.result[l])
                  => call.result[k] < call.result[l]

\* a result with two chunks of equal score after a chunk of higher score
C3_Witness ==
    /\ IsSearch
    /\ \E k, l \in 1..Len(call.result) :
          /\ k < l
          /\ ScoreAt(call.result[k]) = ScoreAt(call.result[l])
          /\ FloatLess(ScoreAt(call.result[k]), ScoreAt(call.result[1]))

\* C4: every returned chunk is a chunk of the loaded corpus, and no corpus
\* position is returned more than once
C4_FromCorpusOnce ==
    IsSearch =>
        /\ \A k \in 1..Len(call.result) :
              call.result[k] \in 1..Len(knowledge_chunks.v)
        /\ \A k, l \in 1..Len(call.result) :
              call.result[k] = call.result[l] => k = l

\* two equal records at different corpus positions are both returned
C4_Witness ==
    /\ IsSearch
    /\ \E k, l \in 1..Len(call.result) :
          /\ call.result[k] # call.result[l]
          /\ knowledge_chunks.v[call.result[k]] = knowledge_chunks.v[call.result[l]]

\* C5: constructing a RAGKnowledgeBase never raises, whatever the store is
C5_NeverRaises == constructed # "raised"

\* C6: when the fallback is taken and the default corpus could not be
\* written to the store, the load completes with the default corpus
C6_WriteFailureTolerated ==
    AfterLoad /\ LastLoad.took # "read" /\ ~StoreHoldsDefault
        => constructed = "ok" /\ knowledge_chunks = sample_chunks

\* C7: for every path with no file (with or without a directory component,
\* the directory existing or not) that may be written, construction ends
\* with the default corpus in memory and in a file at the path
C7_MissingStoreCreated ==
    AfterLoad /\ LastLoad.store = "missing" /\ fs.can_write
        => /\ constructed = "ok"
           /\ knowledge_chunks = sample_chunks
           /\ StoreHoldsDefault

\* C8: a load from a missing store yields the default corpus and writes the
\* store, and a load that directly follows it takes the read path and yields
\* the default corpus again
C8_RoundTrip ==
    \A i \in 1..Len(log) :
        log[i].op = "load" /\ log[i].store = "missing" /\ fs.can_write =>
            /\ log[i].took = "created" /\ ~log[i].raised
            /\ i = Len(log) => knowledge_chunks = sample_chunks /\ StoreHoldsDefault
            /\ i < Len(log) /\ log[i + 1].op = "load" =>
                  /\ log[i + 1].took = "read" /\ ~log[i + 1].raised
                  /\ i + 1 = Len(log) => knowledge_chunks = sample_chunks

\* the lists a store of the model can hold
StoredLists == Corpora \o <<sample_chunks>>

IsLoadStep == Len(log') = Len(log) + 1 /\ log'[Len(log')].op = "load"

\* C9: a load of a readable store that holds a list, bare or as the chunks
\* field of an object, makes that list the corpus and leaves the store alone
C9_LoadsStoredList ==
    [][\A i \in 1..Len(StoredLists) :
          /\ IsLoadStep
          /\ fs.exists /\ fs.can_read
          /\ \/ fs.text = json_dump(StoredLists[i])
             \/ fs.text = json_dump(PyDict(<< <<K_chunks, StoredLists[i]>> >>))
          => /\ constructed' = "ok"
             /\ knowledge_chunks' = StoredLists[i]
             /\ fs' = fs]_vars

\* a non-empty list read from the chunks field of an object
C9_Witness ==
    /\ AfterLoad
    /\ LastLoad.store = "chunks list"
    /\ fs.text = json_dump(PyDict(<< <<K_chunks, Corpora[2]>> >>))
    /\ knowledge_chunks = Corpora[2]

\* C10: when the store is missing, unreadable, unparsable or of neither
\* accepted shape, the load ends with the default corpus in memory
C10_FallbackToDefault ==
    AfterLoad /\ LastLoad.store \in {"missing", "unreadable", "unparsable", "other"}
        => constructed = "ok" /\ knowledge_chunks = sample_chunks

----------------------------------------------------------------------------
(* Properties of the read operations, checked under QuerySpec               *)

IsContext == call.op = "context"
IsTopics == call.op = "topics"

\* the value of a field of a record, the empty string when it is missing
FieldOrEmpty(chunk, key) ==
    IF \E i \in 1..Len(chunk.v) : chunk.v[i][1] = key
    THEN chunk.v[CHOOSE i \in 1..Len(chunk.v) : chunk.v[i][1] = key][2].v
    ELSE <<>>

\* every record is a dict whose fields, where present, are strings
OnlyLacking ==
    \A i \in 1..Len(knowledge_chunks.v) :
        /\ knowledge_chunks.v[i].t = "dict"
        /\ \A j \in 1..Len(knowledge_chunks.v[i].v) :
              knowledge_chunks.v[i].v[j][2].t = "str"

\* the corpus with every missing field set to the empty string
FilledCorpus ==
    PyList([i \in 1..Len(knowledge_chunks.v) |->
              Record(FieldOrEmpty(knowledge_chunks.v[i], K_chunk),
                     FieldOrEmpty(knowledge_chunks.v[i], K_subtopic),
                     FieldOrEmpty(knowledge_chunks.v[i], K_chapter))])

\* C11: on a corpus whose records only lack fields, the three operations
\* return without raising, and return what they return on the corpus with
\* each missing field set to the empty string
C11_MissingFieldsTolerated ==
    call.op # "none" /\ OnlyLacking =>
        /\ ~call.raised
        /\ call.op = "search" =>
              call.result = search_relevant_chunks(FilledCorpus, call.query,
                                                   call.top_k).result
        /\ IsContext =>
              call.result = get_context_for_query(FilledCorpus, call.query,
                                call.max_context_length).result
        /\ IsTopics =>
              call.result \in get_chapter_topics(FilledCorpus, call.chapter).results

\* a context assembled from records that lack fields
C11_Witness ==
    /\ IsContext
    /\ knowledge_chunks = LackingCorpus
    /\ ~call.raised
    /\ Len(call.included) >= 2

\* no chunk of the corpus has a total score above the floor: the search of
\* the call returns no chunk
NoChunkClears ==
    \A i \in 1..Len(call.totals) : ~FloatLess(Floor, call.totals[i])

\* C12: get_context_for_query returns the fixed fallback string whenever
\* its search returns no chunk, for any query and max_context_length
C12_FallbackWhenNoChunk ==
    IsContext /\ ~call.raised /\ NoChunkClears => call.result = FallbackContext

\* a query that no chunk of a non-empty corpus matches
C12_Witness ==
    /\ IsContext
    /\ knowledge_chunks.v # <<>>
    /\ ~call.raised
    /\ NoChunkClears
    /\ call.result = FallbackContext

\* the sum of the lengths of the first j blocks
RECURSIVE BlocksLength(_, _)
BlocksLength(blocks, j) ==
    IF j = 0 THEN 0 ELSE BlocksLength(blocks, j - 1) + Len(blocks[j])

IncludedLength ==
    BlocksLength([k \in 1..Len(call.included) |-> call.blocks[call.included[k]]],
                 Len(call.included))

\* C13 as stated: the lengths of the included blocks sum to at most
\* max_context_length, for every max_context_length
C13_WithinBudget_AnyLength ==
    IsContext /\ ~call.raised => IncludedLength <= call.max_context_length

\* C13, amended: the lengths of the included blocks sum to at most
\* max_context_length when max_context_length >= 0; when it is negative no
\* block is included
C13_WithinBudget ==
    IsContext /\ ~call.raised =>
        /\ call.max_context_length >= 0 => IncludedLength <= call.max_context_length
        /\ call.max_context_length < 0 => call.included = <<>>

\* blocks are included, and the next one is left out for its length
C13_Witness ==
    /\ IsContext
    /\ Len(call.included) >= 2
    /\ Len(call.included) < Len(call.blocks)
    /\ IncludedLength <= call.max_context_length

\* C14: the included blocks are the first j blocks of the ranked result, in
\* ranked order; j stops at the first block that would overflow the budget,
\* and the returned string is these blocks joined
C14_PrefixGreedy ==
    IsContext /\ ~call.raised /\ ~NoChunkClears =>
        /\ Len(call.blocks) = Len(call.relevant_chunks)
        /\ \A i \in 1..Len(call.blocks) :
              call.blocks[i] =
                  formatted_chunk(knowledge_chunks.v[call.relevant_chunks[i]])
        /\ call.included = [k \in 1..Len(call.included) |-> k]
        /\ Len(call.included) <= Len(call.blocks)
        /\ Len(call.included) < Len(call.blocks) =>
              BlocksLength(call.blocks, Len(call.included))
                + Len(call.blocks[Len(call.included) + 1])
                  > call.max_context_length
        /\ call.result = Join(SubSeq(call.blocks, 1, Len(call.included)))

\* a block overflows and a later block, which would fit, is left out
C14_Witness ==
    /\ IsContext
    /\ call.included # <<>>
    /\ \E l \in (Len(call.included) + 2)..Len(call.blocks) :
          BlocksLength(call.blocks, Len(call.included)) + Len(call.blocks[l])
              <= call.max_context_length

\* the non-empty subtopic values of the corpus
NonEmptySubtopics ==
    {FieldOrEmpty(knowledge_chunks.v[i], K_subtopic) :
        i \in {j \in 1..Len(knowledge_chunks.v) :
                  knowledge_chunks.v[j].t = "dict"}} \ {<<>>}

NoRepeat(seq) == \A k, l \in 1..Len(seq) : seq[k] = seq[l] => k = l

\* C15: get_chapter_topics() returns the distinct non-empty subtopic values
\* of the loaded chunks, each once
C15_AllTopics ==
    IsTopics /\ call.chapter.t = "none" /\ ~call.raised =>
        /\ Range(call.result) = NonEmptySubtopics
        /\ NoRepeat(call.result)

\* a subtopic that two chunks share is returned once, among others
C15_Witness ==
    /\ IsTopics
    /\ call.chapter.t = "none"
    /\ Len(call.result) >= 2
    /\ \E i, j \in 1..Len(knowledge_chunks.v) :
          /\ i # j
          /\ FieldOrEmpty(knowledge_chunks.v[i], K_subtopic) = call.result[1]
          /\ FieldOrEmpty(knowledge_chunks.v[j], K_subtopic) = call.result[1]

\* the chunks whose chapter contains the argument, case-insensitively
InChapter ==
    {i \in 1..Len(knowledge_chunks.v) :
        Contains(lower(FieldOrEmpty(knowledge_chunks.v[i], K_chapter)),
                 lower(call.chapter.v))}

\* the first chunk of the chapter that holds the subtopic
FirstWith(topic) ==
    CHOOSE i \in InChapter :
        /\ FieldOrEmpty(knowledge_chunks.v[i], K_subtopic) = topic
        /\ \A j \in InChapter :
              FieldOrEmpty(knowledge_chunks.v[j], K_subtopic) = topic => i <= j

ElectricityTopics ==
    <<<<"E","l","e","c","t","r","i","c"," ","C","u","r","r","e","n","t">>,
      <<"E","l","e","c","t","r","i","c"," ","P","o","t","e","n","t","i","a","l">>,
      <<"O","h","m","'","s"," ","L","a","w">>,
      <<"R","e","s","i","s","t","a","n","c","e">>,
      <<"R","e","s","i","s","t","o","r"," ","C","o","m","b","i","n","a","t","i","o","n","s">>,
      <<"E","l","e","c","t","r","i","c"," ","P","o","w","e","r">>>>

\* C16: get_chapter_topics(category), category non-empty, returns the
\* non-empty subtopics of the chunks whose chapter contains category as a
\* case-insensitive substring, each once, in order of first occurrence; on
\* the built-in corpus "Electricity" gives the six Electricity subtopics
C16_ChapterTopics ==
    IsTopics /\ Truthy(call.chapter) /\ ~call.raised =>
        /\ Range(call.result) =
              {FieldOrEmpty(knowledge_chunks.v[i], K_subtopic) : i \in InChapter}
                \ {<<>>}
        /\ NoRepeat(call.result)
        /\ \A k, l \in 1..Len(call.result) :
              k < l => FirstWith(call.result[k]) < FirstWith(call.result[l])
        /\ knowledge_chunks = sample_chunks /\ call.chapter = ChapterArgs[3]
              => call.result = ElectricityTopics

\* "Electricity" on the built-in corpus
C16_Witness ==
    /\ IsTopics
    /\ knowledge_chunks = sample_chunks
    /\ Truthy(call.chapter)
    /\ call.chapter = ChapterArgs[3]
    /\ Len(call.result) = 6

\* C17: with an empty corpus no operation raises, search_relevant_chunks
\* returns the empty sequence, get_context_for_query the fallback string and
\* get_chapter_topics() the empty collection
C17_EmptyCorpus ==
    call.op # "none" /\ knowledge_chunks.v = <<>> =>
        /\ ~call.raised
        /\ call.op = "search" => call.result = <<>>
        /\ IsContext => call.result = FallbackContext
        /\ IsTopics => call.result = <<>>

\* get_context_for_query on the empty corpus
C17_Witness ==
    /\ IsContext
    /\ knowledge_chunks.v = <<>>
    /\ call.query # <<>>
    /\ call.result = FallbackContext

\* C18: for the empty query on the built-in corpus every total score is 0,
\* and get_context_for_query("", 1200) returns the fallback string
C18_EmptyQueryDefaultCorpus ==
    IsContext /\ knowledge_chunks = sample_chunks /\ call.query = <<>> =>
        /\ Len(call.totals) = Len(sample_chunks.v)
        /\ \A i \in 1..Len(call.totals) : call.totals[i] = FloatZero
        /\ call.max_context_length = 1200 => call.result = FallbackContext

\* get_context_for_query("", 1200) on the built-in corpus
C18_Witness ==
    /\ IsContext
    /\ knowledge_chunks = sample_chunks
    /\ call.query = <<>>
    /\ call.max_context_length = 1200
    /\ ~call.raised

\* the position of the chunk with the subtopic
WithSubtopic(topic) ==
    CHOOSE i \in 1..Len(knowledge_chunks.v) :
        FieldOrEmpty(knowledge_chunks.v[i], K_subtopic) = topic

OhmsLawChunk == WithSubtopic(ElectricityTopics[3])
MagneticFieldChunk ==
    WithSubtopic(<<"M","a","g","n","e","t","i","c"," ","F","i","e","l","d">>)

\* C19: for the query "Ohm's law" on the built-in corpus the chunk "Ohm's
\* Law" has a higher total score than the chunk "Magnetic Field" and comes
\* before it in the ranking
C19_OhmsLawFirst ==
    IsContext /\ knowledge_chunks = sample_chunks /\ call.query = OhmsLaw =>
        /\ FloatLess(call.totals[MagneticFieldChunk], call.totals[OhmsLawChunk])
        /\ \E k, l \in 1..Len(call.scored_chunks) :
              /\ k < l
              /\ call.scored_chunks[k].chunk = OhmsLawChunk
              /\ call.scored_chunks[l].chunk = MagneticFieldChunk
        /\ \A k, l \in 1..Len(call.scored_chunks) :
              /\ call.scored_chunks[k].chunk = OhmsLawChunk
              /\ call.scored_chunks[l].chunk = MagneticFieldChunk
              => k < l

\* both chunks are in the ranking of the query "Ohm's law"
C19_Witness ==
    /\ IsContext
    /\ knowledge_chunks = sample_chunks
    /\ call.query = OhmsLaw
    /\ \E k, l \in 1..Len(call.scored_chunks) :
          /\ call.scored_chunks[k].chunk = OhmsLawChunk
          /\ call.scored_chunks[l].chunk = MagneticFieldChunk
    /\ call.relevant_chunks[1] = OhmsLawChunk

----------------------------------------------------------------------------
(* Properties of concurrent callers, checked under ConcSpec                 *)

\* what the call of frame f returns when it runs alone
AloneResults(f) ==
    IF f.op = "search"
    THEN {search_relevant_chunks(knowledge_chunks, f.query, f.top_k).result}
    ELSE IF f.op = "context"
    THEN {get_context_for_query(knowledge_chunks, f.query,
                                f.max_context_length).result}
    ELSE get_chapter_topics(knowledge_chunks, f.chapter).results

\* the scored list of a search that has gone through the chunks before i
\* on its own, sorted once the search has reached its return
AloneScored(f) ==
    Let1(Scored(Totals(SubSeq(knowledge_chunks.v, 1, f.i - 1), f.query)),
         LAMBDA scored : IF f.pc = "search_return" THEN sort(scored) ELSE scored)

\* C20: with any number of calls interleaved, each call returns what it
\* returns alone, and the scored list of a call in progress holds what the
\* call itself has put there
C20_CallsIndependent ==
    \A t \in Callers :
        /\ call.frame[t].pc = "done" =>
              call.frame[t].result \in AloneResults(call.frame[t])
        /\ call.frame[t].pc \in {"search_loop", "search_sort", "search_return"}
           /\ knowledge_chunks.v # <<>> =>
              call.heap[scored_chunks_of(t)] = AloneScored(call.frame[t])

\* a search returns chunks while another caller, with another query, is
\* inside its own loop with a chunk already scored
C20_Witness ==
    \E t, u \in Callers :
        /\ t # u
        /\ call.frame[t].pc = "done"
        /\ call.frame[t].op = "search"
        /\ call.frame[t].result # <<>>
        /\ call.frame[u].pc = "search_loop"
        /\ call.frame[u].query # call.frame[t].query
        /\ call.heap[scored_chunks_of(u)] # <<>>

----------------------------------------------------------------------------
(* Properties of the corpus, the scores and the context, under QuerySpec     *)

\* C21: no call of search_relevant_chunks, get_context_for_query or
\* get_chapter_topics changes the in-memory corpus (records, order, field
\* values) or the store file
C21_ReadOnly ==
    [][knowledge_chunks' = knowledge_chunks /\ fs' = fs]_vars

\* topics have been read from the corpus whose records lack fields, and the
\* corpus and the store are as the load left them
C21_Witness ==
    /\ IsTopics
    /\ call.result # <<>>
    /\ knowledge_chunks = LackingCorpus
    /\ fs.text = json_dump(LackingCorpus)

\* the total score the formula gives for one query and one chunk: the
\* ratios of the lowercased query against the lowercased fields, weighted,
\* plus the capped keyword score
FormulaTotal(query, chunk) ==
    Let1(<<lower(query),
           lower(FieldOrEmpty(chunk, K_chunk)),
           lower(FieldOrEmpty(chunk, K_subtopic)),
           lower(FieldOrEmpty(chunk, K_chapter))>>,
         LAMBDA f :
           FloatAdd(
             FloatAdd(
               FloatAdd(ratio(f[1], f[2]),
                        FloatMul(ratio(f[1], f[3]), FloatDiv(3, 2))),
               FloatMul(ratio(f[1], f[4]), FloatDiv(12, 10))),
             FloatMin(keyword_score(KeywordHits(FindWords(f[1], 0),
                                                f[2], f[3], f[4])),
                      FloatDiv(1, 1))))

\* a search or a context call that has scored the chunks of the corpus
HasTotals ==
    /\ call.op \in {"search", "context"}
    /\ ~call.raised
    /\ knowledge_chunks.v # <<>>

\* C22: the total score of each chunk is the value of the formula for the
\* query and that chunk alone, whatever the other chunks, top_k and the
\* calls before
C22_ScoreFormula ==
    HasTotals =>
        /\ Len(call.totals) = Len(knowledge_chunks.v)
        /\ \A i \in 1..Len(call.totals) :
              call.totals[i] = FormulaTotal(call.query, knowledge_chunks.v[i])

\* a chunk with a subtopic ratio and a chapter ratio above 0, and the same
\* record twice in the corpus
C22_Witness ==
    /\ HasTotals
    /\ call.query # <<>>
    /\ \E i, j \in 1..Len(knowledge_chunks.v) :
          /\ i # j
          /\ knowledge_chunks.v[i] = knowledge_chunks.v[j]
          /\ knowledge_chunks.v[i].t = "dict"
          /\ ratio(lower(call.query),
                   lower(FieldOrEmpty(knowledge_chunks.v[i], K_subtopic)))
                # FloatZero
          /\ ratio(lower(call.query),
                   lower(FieldOrEmpty(knowledge_chunks.v[i], K_chapter)))
                # FloatZero

\* the three weighted ratios of the lowercased query against the
\* lowercased fields of one chunk, added left to right
SimilarityPart(query, chunk) ==
    Let1(lower(query),
         LAMBDA q :
           FloatAdd(
             FloatAdd(ratio(q, lower(FieldOrEmpty(chunk, K_chunk))),
                      FloatMul(ratio(q, lower(FieldOrEmpty(chunk, K_subtopic))),
                               FloatDiv(3, 2))),
             FloatMul(ratio(q, lower(FieldOrEmpty(chunk, K_chapter))),
                      FloatDiv(12, 10))))

\* n: the positions in the token list of the lowercased query whose token
\* is a substring of the lowercased text, subtopic or chapter of the chunk
MatchingTokens(query, chunk) ==
    Let1(FindWords(lower(query), 0),
         LAMBDA tokens :
           Cardinality({k \in 1..Len(tokens) :
              \/ Contains(lower(FieldOrEmpty(chunk, K_chunk)), tokens[k])
              \/ Contains(lower(FieldOrEmpty(chunk, K_subtopic)), tokens[k])
              \/ Contains(lower(FieldOrEmpty(chunk, K_chapter)), tokens[k])}))

\* min(0.3 * n, 1.0)
CappedBonus(n) ==
    FloatMin(FloatMul(FloatDiv(3, 10), FloatDiv(n, 1)), FloatDiv(1, 1))

\* C23: the keyword component of each total score is min(0.3 * n, 1.0) for
\* the number n of query tokens, repetitions counted, found in a field of
\* the chunk; it is 1.0 from four matching tokens on
C23_KeywordComponent ==
    HasTotals =>
        \A i \in 1..Len(call.totals) :
            /\ call.totals[i] =
                  FloatAdd(SimilarityPart(call.query, knowledge_chunks.v[i]),
                           CappedBonus(MatchingTokens(call.query,
                                                      knowledge_chunks.v[i])))
            /\ MatchingTokens(call.query, knowledge_chunks.v[i]) >= 4 =>
                  call.totals[i] =
                      FloatAdd(SimilarityPart(call.query, knowledge_chunks.v[i]),
                               FloatDiv(1, 1))

\* a query of five tokens, two of them distinct: all five are found in one
\* chunk and three of them in another
C23_Witness ==
    /\ HasTotals
    /\ call.query = RepeatQuery
    /\ \E i \in 1..Len(knowledge_chunks.v) :
          MatchingTokens(call.query, knowledge_chunks.v[i]) = 5
    /\ \E i \in 1..Len(knowledge_chunks.v) :
          MatchingTokens(call.query, knowledge_chunks.v[i]) = 3

\* 4.7
MaxTotal == FloatDiv(47, 10)

\* C24: every total score is at least 0 and at most 4.7
C24_ScoreRange ==
    HasTotals =>
        \A i \in 1..Len(call.totals) :
            /\ ~FloatLess(call.totals[i], FloatZero)
            /\ ~FloatLess(MaxTotal, call.totals[i])

\* a chunk whose three ratios are 1.0 and whose keyword score is capped:
\* its total is 4.7
C24_Witness ==
    /\ HasTotals
    /\ \E i \in 1..Len(call.totals) : call.totals[i] = MaxTotal

\* the chunks the search of the call returned, and the top_k it had:
\* get_context_for_query searches with top_k=3
Returned == IF IsContext THEN call.relevant_chunks ELSE call.result
TopK == IF IsContext THEN 3 ELSE call.top_k

\* the chunks whose total score is above the floor
Clearing == {i \in 1..Len(call.totals) : FloatLess(Floor, call.totals[i])}

\* C25: for top_k >= 0 the search returns the first min(top_k, s) entries of
\* the sorted list of the s chunks that clear the floor: an omitted chunk
\* that clears the floor scores no higher than any returned chunk, and when
\* fewer than top_k chunks are returned none that clears the floor is omitted
C25_TopOfRanking ==
    HasTotals /\ TopK >= 0 =>
        /\ Len(Returned) = Min(TopK, Cardinality(Clearing))
        /\ Len(call.scored_chunks) = Cardinality(Clearing)
        /\ \A k \in 1..Len(Returned) : Returned[k] = call.scored_chunks[k].chunk
        /\ \A i \in Clearing \ Range(Returned) :
              \A k \in 1..Len(Returned) :
                  ~FloatLess(call.totals[Returned[k]], call.totals[i])
        /\ Len(Returned) < TopK => Clearing \subseteq Range(Returned)

\* a search with top_k > 0 that leaves out a chunk above the floor, scoring
\* lower than the last one returned
C25_Witness ==
    /\ HasTotals
    /\ call.op = "search"
    /\ call.top_k > 0
    /\ Len(call.result) = call.top_k
    /\ \E i \in Clearing \ Range(call.result) :
          FloatLess(call.totals[i], call.totals[call.result[Len(call.result)]])

\* the complete block of a chunk: the book sign, the chapter between
\* asterisks, the subtopic, a colon, and the whole text on a line of its own
CompleteBlock(chunk) ==
    <<"U+1F4DA", " ", "*", "*">> \o FieldOrEmpty(chunk, K_chapter)
    \o <<"*", "*", " ", "-", " ">> \o FieldOrEmpty(chunk, K_subtopic)
    \o <<":", "\n">> \o FieldOrEmpty(chunk, K_chunk) \o <<"\n">>

\* C26: the output of get_context_for_query is made of the complete blocks
\* of retrieved chunks, none cut short, and of at most 3 of them whatever
\* max_context_length is
C26_WholeBlocks ==
    IsContext /\ ~call.raised /\ call.relevant_chunks # <<>> =>
        /\ Len(call.included) <= 3
        /\ Len(call.included) <= Len(call.relevant_chunks)
        /\ call.result =
              Join([k \in 1..Len(call.included) |->
                      CompleteBlock(knowledge_chunks.v[
                          call.relevant_chunks[call.included[k]]])])

\* three blocks are included, and the corpus has more chunks above the floor
C26_Witness ==
    /\ IsContext
    /\ ~call.raised
    /\ Len(call.included) = 3
    /\ Len(call.scored_chunks) > 3

\* C27: get_context_for_query never returns the empty string: the result
\* is the fallback string or at least one formatted block, for every query,
\* corpus and max_context_length (taken here above 0)
C27_NeverEmpty ==
    IsContext /\ ~call.raised /\ call.max_context_length > 0 =>
        /\ call.result # <<>>
        /\ \/ call.result = FallbackContext
           \/ call.included # <<>>

\* C28: when get_context_for_query returns blocks, the length of the
\* returned string, the newlines between the blocks counted, is at most
\* max_context_length
C28_LengthWithinBudget ==
    IsContext /\ ~call.raised /\ call.included # <<>> =>
        Len(call.result) <= call.max_context_length

\* C29: for the empty query search_relevant_chunks returns the empty
\* sequence on every corpus, also when fields of chunks are empty or missing
\* (top_k taken above 0)
C29_EmptyQueryEmptyResult ==
    call.op = "search" /\ ~call.raised /\ call.query = <<>> /\ call.top_k > 0 =>
        call.result = <<>>

\* the same character, or the capital and the small form of one letter
SameLetter(c, d) ==
    \/ c = d
    \/ \E n \in 1..Len(UpperChars) : {c, d} = {UpperChars[n], LowerChars[n]}

\* the queries of the pool that differ from the query of the call in letter
\* case only
CaseVariants ==
    {q \in ContextQueries :
        /\ q # call.query
        /\ Len(q) = Len(call.query)
        /\ \A k \in 1..Len(q) : SameLetter(q[k], call.query[k])}

\* C30: a query that differs from the query of the call in letter case only
\* gives every chunk the same score and gives the same result from
\* search_relevant_chunks and from get_context_for_query
C30_CaseInsensitive ==
    /\ call.op = "search" /\ ~call.raised =>
          \A q \in CaseVariants :
              \E r \in {search_relevant_chunks(knowledge_chunks, q, call.top_k)} :
                  /\ r.totals = call.totals
                  /\ r.result = call.result
    /\ IsContext /\ ~call.raised =>
          \A q \in CaseVariants :
              \E r \in {get_context_for_query(knowledge_chunks, q,
                                              call.max_context_length)} :
                  /\ r.search.totals = call.totals
                  /\ r.search.result = call.relevant_chunks
                  /\ r.result = call.result

\* a context with blocks for a query in mixed case, of which the pool holds
\* the all-small form
C30_Witness ==
    /\ IsContext
    /\ ~call.raised
    /\ call.query = RepeatQueryUpper
    /\ RepeatQuery \in CaseVariants
    /\ call.included # <<>>
    /\ \E i \in 1..Len(call.totals) : call.totals[i] # FloatZero

====
